---- MODULE Spec2Model ----
(***************************************************************************)
(* Verification model of the two overlay popups (cliphist-gui, launch-gui) *)
(* of Vib1240n/Cliphist-Gui: the pidfile singleton protocol of main(), the *)
(* SIGUSR1/SIGUSR2 handlers, the key-press callback with the vim state     *)
(* machine of common/vim.rs, the list filters and the launcher's height    *)
(* animation.                                                              *)
(*                                                                         *)
(* Specifications over the same variables:                                 *)
(*   SpecLife    the invocations of one tool by one user racing on the     *)
(*               pidfile (main() of cliphist/main.rs, launcher/main.rs);   *)
(*   SpecKeys    one daemon's event loop under the whole keyboard, the     *)
(*               configuration file and the candidate source left alone;   *)
(*   Spec        one daemon's event loop under a few keys, with the        *)
(*               configuration file and the candidate source changing;     *)
(*   SpecCalc    one daemon's event loop with the calculator enabled and   *)
(*               the keys that type an expression;                         *)
(*   SpecBinds   one daemon started on each [keybinds] section of a small  *)
(*               family of configuration files;                            *)
(*   SpecFilter  the launcher's search over two applications;              *)
(*   SpecSearch  both tools' event loops over three candidates whose       *)
(*               texts contain one another's queries;                      *)
(*   SpecFlags   one daemon's event loop with the flags of the             *)
(*               configuration file edited and reloaded, and row clicks;   *)
(*   SpecStale   the invocations of SpecLife started on a pidfile left     *)
(*               behind with any short text;                               *)
(*   SpecRelaunch, FairRelaunch  one invocation with --reload or --theme,  *)
(*               the process it replaces and the process it spawns;        *)
(*               FairRelaunch lets every started process go on running.    *)
(*   SpecTotal   one daemon's event loop where the helper programs of the  *)
(*               select action may be missing;                             *)
(*   SpecMatch   the launcher's search over names of up to three letters   *)
(*               in both cases;                                            *)
(*   SpecNav     one daemon's event loop over lists of zero, one and many  *)
(*               rows under the navigation keys;                           *)
(*   SpecAnim    the launcher's height animation: the search text, the     *)
(*               toggle signal and the timer sources of animate_height.    *)
(***************************************************************************)
EXTENDS Integers, Sequences, FiniteSets, TLC

(***************************************************************************)
(* Bounds of the model.                                                    *)
(***************************************************************************)
NProcs == 3

\* longest text the search Entry holds in the model
MaxQuery == 1

\* most launches counted per application name in the model
MaxUse == 1

\* longest text the search Entry holds where the calculator is exercised
MaxExpr == 2

\* most entries of the [keybinds] section of the configuration file
MaxLines == 2

Procs == 1..NProcs

VARIABLES
    \* ---- invocations and the pidfile (SpecLife) ----
    pc,         \* pc[p]: position of invocation p in main()
    got,        \* got[p]: the Option<i32> returned by get_pid to p
    pidfile,    \* /tmp/<app>-<uid>.pid: Some(text), None when there is no file
    usr1,       \* usr1[p]: SIGUSR1 pending for process p
    win,        \* win[p]: p's window is visible
    sent,       \* sent[p]: number of kill(pid, SIGUSR1) calls made by p
    tries,      \* tries[p]: probes of cmd_reload's loop that found the pid alive
    \* ---- one daemon's event loop (Spec) ----
    tool,       \* "cliphist" or "launcher"
    running,    \* the daemon process is alive (FALSE after a panic)
    visible,    \* win.is_visible()
    query,      \* text of the search Entry
    entries,    \* the Rc<RefCell<Vec<..>>> candidate list
    source,     \* what the candidate source returns when read now
    rows,       \* the rows of the ListBox, in order
    sel,        \* index of the selected row, -1 when no row is selected
    focus,      \* widget holding the keyboard focus: "search" or "list"
    cfgFile,    \* the configuration file on disk
    CONFIG,     \* thread_local CONFIG: the configuration last loaded
    cfg,        \* the `cfg` of activate(), cloned into the callbacks
    VIM_STATE,  \* thread_local VIM_STATE
    LAST_KEY,   \* thread_local LAST_KEY (NoChar = None)
    FREQUENCY,  \* thread_local FREQUENCY of the launcher: name -> launches
    act,        \* what the latest key press emitted ("none" = None), or
                \* "reset" when another event came after that key press
    lastKey,    \* the latest key press: "g", "d", "other", or "none" before
                \* the first
    \* ---- the height animation of the launcher (SpecAnim) ----
    EXPANDED,   \* thread_local EXPANDED
    pane,       \* wg.scroll.is_visible(): the list pane is shown
    timers      \* the pending timeout sources of animate_height, oldest
                \* first: [expanding, fired]

lifeVars == <<pc, got, pidfile, usr1, win, sent, tries>>

uiVars == <<tool, running, visible, query, entries, source, rows, sel, focus,
            cfgFile, CONFIG, cfg, VIM_STATE, LAST_KEY, FREQUENCY, act,
            lastKey>>

animVars == <<EXPANDED, pane, timers>>

vars == <<lifeVars, uiVars, animVars>>

(***************************************************************************)
(* Options and texts.  A text is a sequence of one-character strings.      *)
(***************************************************************************)
None == [none |-> TRUE]

Some(v) == [some |-> v]

IsSome(o) == "some" \in DOMAIN o

\* str::trim_matches / str::trim: the characters of cs dropped at both ends
RECURSIVE TrimStart(_, _)
TrimStart(t, cs) ==
    IF t # <<>> /\ Head(t) \in cs THEN TrimStart(Tail(t), cs) ELSE t

RECURSIVE TrimEnd(_, _)
TrimEnd(t, cs) ==
    IF t # <<>> /\ t[Len(t)] \in cs
    THEN TrimEnd(SubSeq(t, 1, Len(t) - 1), cs) ELSE t

trim_matches(t, cs) == TrimEnd(TrimStart(t, cs), cs)

\* str::trim
trim(t) == trim_matches(t, {" ", "\n", "\t"})

Digits == <<"0", "1", "2", "3", "4", "5", "6", "7", "8", "9">>

DigitVal(c) == (CHOOSE n \in 1..10 : Digits[n] = c) - 1

\* the number a text of digits writes
RECURSIVE Value(_)
Value(t) ==
    IF t = <<>> THEN 0
    ELSE 10 * Value(SubSeq(t, 1, Len(t) - 1)) + DigitVal(t[Len(t)])

\* str::parse::<i32>: an optional sign, then digits only and at least one,
\* the number within the 32 bits
parse_i32(t) ==
    LET minus == t # <<>> /\ Head(t) = "-"
        body == IF t # <<>> /\ Head(t) \in {"+", "-"} THEN Tail(t) ELSE t
    IN IF body = <<>> THEN None
       ELSE IF \E n \in 1..Len(body) : \A d \in 1..10 : body[n] # Digits[d]
       THEN None
       ELSE IF Value(body) - (IF minus THEN 1 ELSE 0) > 2147483647
       THEN None
       ELSE Some(IF minus THEN 0 - Value(body) ELSE Value(body))

\* std::process::id().to_string(): the pids of the model have one digit
to_string(pid) == <<Digits[pid + 1]>>

(***************************************************************************)
(* Invocations racing on the pidfile.                                      *)
(*   unborn    a process that is not spawned yet                           *)
(*   idle      not invoked yet, or spawned and about to run main()         *)
(*   signal    get_pid returned Some(pid); about to kill(pid, SIGUSR1)     *)
(*   write     get_pid returned None; about to write the pidfile           *)
(*   starting  pidfile written; GTK application being built, the SIGUSR1   *)
(*             handler is not installed yet                                *)
(*   daemon    activate() done, window presented, handlers installed       *)
(*   dying     SIGTERM is pending, the process has not ended yet           *)
(*   exited    returned from main()                                        *)
(*   killed    terminated by a signal; the pidfile is not removed          *)
(* and, for an invocation with --reload or --theme:                        *)
(*   relaunch  started with the argument, main() not run yet               *)
(*   rl_kill, th_kill   get_pid returned Some(pid); about to send SIGTERM  *)
(*   wait      in the probe loop of cmd_reload                             *)
(*   remove    about to remove the pidfile                                 *)
(*   spawn     about to spawn the replacement                              *)
(***************************************************************************)
RelaunchStates == {"rl_kill", "th_kill", "wait", "remove", "spawn"}

Alive(p) ==
    pc[p] \in {"signal", "write", "starting", "daemon", "dying"}
                 \cup RelaunchStates

\* kill(pid, 0) == 0: a process of that id exists; for 0, the process group
\* of the caller, which holds the caller; for -1, every process the caller
\* may signal, and the session of a desktop user holds some.  (The model
\* has no process group but the caller's.)
Probe(pid) ==
    IF pid \in {0, -1} THEN TRUE ELSE pid \in Procs /\ Alive(pid)

\* get_pid: the pidfile read, trimmed and parsed, the pid filtered by the
\* liveness probe
get_pid ==
    IF ~IsSome(pidfile) THEN None
    ELSE LET pid == parse_i32(trim(pidfile.some))
         IN IF IsSome(pid) /\ Probe(pid.some) THEN pid ELSE None

IsDaemon(p) == pc[p] \in {"starting", "daemon"}

LifeInit ==
    /\ pc = [p \in Procs |-> "idle"]
    /\ got = [p \in Procs |-> None]
    /\ pidfile = None
    /\ usr1 = [p \in Procs |-> FALSE]
    /\ win = [p \in Procs |-> FALSE]
    /\ sent = [p \in Procs |-> 0]
    /\ tries = [p \in Procs |-> 0]

\* main(), no argument: `if let Some(pid) = get_pid(&pidfile)`
Invoke(p) ==
    /\ pc[p] = "idle"
    /\ got' = [got EXCEPT ![p] = get_pid]
    /\ pc' = [pc EXCEPT ![p] = IF IsSome(get_pid) THEN "signal" ELSE "write"]
    /\ UNCHANGED <<pidfile, usr1, win, sent, tries, uiVars, animVars>>

\* `unsafe { libc::kill(pid, libc::SIGUSR1) }; return;`: the signal is left
\* pending for a live process of that id; sent to the id 0 it reaches the
\* process group of the caller, and the caller, which has no handler for
\* it, is terminated; sent to the id -1 it reaches every live process but
\* the caller
SendToggle(p) ==
    /\ pc[p] = "signal"
    /\ usr1' = IF got[p].some = -1
               THEN [q \in Procs |-> usr1[q] \/ (q # p /\ Alive(q))]
               ELSE IF got[p].some \in Procs /\ Alive(got[p].some)
               THEN [usr1 EXCEPT ![got[p].some] = TRUE] ELSE usr1
    /\ sent' = [sent EXCEPT ![p] = @ + 1]
    /\ pc' = [pc EXCEPT ![p] = IF got[p].some = 0 THEN "killed" ELSE "exited"]
    /\ UNCHANGED <<got, pidfile, win, tries, uiVars, animVars>>

\* `let _ = std::fs::write(&pidfile, std::process::id().to_string());`
write_pid(p) ==
    /\ pc[p] = "write"
    /\ pidfile' = Some(to_string(p))
    /\ pc' = [pc EXCEPT ![p] = "starting"]
    /\ UNCHANGED <<got, usr1, win, sent, tries, uiVars, animVars>>

\* app.connect_activate: activate(app) presents the window, then the
\* SIGUSR1 and SIGUSR2 sources are added
Activate(p) ==
    /\ pc[p] = "starting"
    /\ ~usr1[p]
    /\ win' = [win EXCEPT ![p] = TRUE]
    /\ pc' = [pc EXCEPT ![p] = "daemon"]
    /\ UNCHANGED <<got, pidfile, usr1, sent, tries, uiVars, animVars>>

\* SIGUSR1 reaching a process that has no handler for it yet: the default
\* disposition terminates the process, the pidfile stays behind
DeliverEarly(p) ==
    /\ pc[p] = "starting"
    /\ usr1[p]
    /\ usr1' = [usr1 EXCEPT ![p] = FALSE]
    /\ pc' = [pc EXCEPT ![p] = "killed"]
    /\ UNCHANGED <<got, pidfile, win, sent, tries, uiVars, animVars>>

\* SIGUSR1 source of the daemon: the window's visibility is flipped
DeliverToggle(p) ==
    /\ pc[p] = "daemon"
    /\ usr1[p]
    /\ usr1' = [usr1 EXCEPT ![p] = FALSE]
    /\ win' = [win EXCEPT ![p] = ~win[p]]
    /\ UNCHANGED <<pc, got, pidfile, sent, tries, uiVars, animVars>>

\* the daemon is terminated from outside (SIGTERM, SIGKILL, session end):
\* `remove_file(&pidfile)` after app.run is not reached
Terminate(p) ==
    /\ pc[p] = "daemon"
    /\ pc' = [pc EXCEPT ![p] = "killed"]
    /\ usr1' = [usr1 EXCEPT ![p] = FALSE]
    /\ win' = [win EXCEPT ![p] = FALSE]
    /\ UNCHANGED <<got, pidfile, sent, tries, uiVars, animVars>>

LifeNext ==
    \E p \in Procs :
        \/ Invoke(p)
        \/ SendToggle(p)
        \/ write_pid(p)
        \/ Activate(p)
        \/ DeliverEarly(p)
        \/ DeliverToggle(p)
        \/ Terminate(p)

\* the launcher starts collapsed: `EXPANDED = false`,
\* `scroll.set_visible(false)`, no animation running
Collapsed ==
    /\ EXPANDED = FALSE
    /\ pane = FALSE
    /\ timers = <<>>

\* no event loop is observed while the invocations race
NoUi ==
    /\ Collapsed
    /\ tool = "cliphist"
    /\ running = FALSE
    /\ visible = FALSE
    /\ query = <<>>
    /\ entries = <<>>
    /\ source = <<>>
    /\ rows = <<>>
    /\ sel = -1
    /\ focus = "search"
    /\ cfgFile = [vim_mode |-> FALSE, close_on_select |-> TRUE,
                  calculator |-> TRUE, keybinds |-> <<>>]
    /\ CONFIG = cfgFile
    /\ cfg = cfgFile
    /\ VIM_STATE = "Normal"
    /\ LAST_KEY = "none"
    /\ FREQUENCY = <<>>
    /\ act = "none"
    /\ lastKey = "none"

\* no invocation has started, no event loop runs
InitLife == LifeInit /\ NoUi

SpecLife == InitLife /\ [][LifeNext]_vars

\* what an invocation can find in place of the pidfile of a live daemon: no
\* file, the id of a process that is gone (with and without a line end), an
\* empty file, text that is no number, a number followed by other text, the
\* number 0 and a negative number
StaleFiles ==
    {None,
     Some(<<"9">>),
     Some(<<"9", "\n">>),
     Some(<<>>),
     Some(<<"x">>),
     Some(<<"1", "x">>),
     Some(<<"0">>),
     Some(<<"-", "1">>)}

\* no invocation has started and the pidfile is one of StaleFiles
InitStale ==
    /\ pc = [p \in Procs |-> "idle"]
    /\ got = [p \in Procs |-> None]
    /\ pidfile \in StaleFiles
    /\ usr1 = [p \in Procs |-> FALSE]
    /\ win = [p \in Procs |-> FALSE]
    /\ sent = [p \in Procs |-> 0]
    /\ tries = [p \in Procs |-> 0]
    /\ NoUi

SpecStale == InitStale /\ [][LifeNext]_vars

(***************************************************************************)
(* Relaunch: cmd_reload (`--reload`) and the `--theme` arm of main().      *)
(***************************************************************************)
\* `for _ in 0..20`
ProbeCap == 20

\* main() with `--reload` or `--theme <known theme>`: get_pid
Relaunch(p, how) ==
    /\ pc[p] = "relaunch"
    /\ got' = [got EXCEPT ![p] = get_pid]
    /\ pc' = [pc EXCEPT ![p] =
                IF ~IsSome(get_pid) THEN "spawn"
                ELSE IF how = "reload" THEN "rl_kill" ELSE "th_kill"]
    /\ UNCHANGED <<pidfile, usr1, win, sent, tries, uiVars, animVars>>

\* `unsafe { libc::kill(pid, libc::SIGTERM) }`: SIGTERM is pending for the
\* live process of that id (sent to the id 0 it ends the caller); --reload
\* goes on to its probe loop, --theme sleeps 100 ms
SigTerm(p) ==
    /\ pc[p] \in {"rl_kill", "th_kill"}
    /\ pc' = [q \in Procs |->
                IF q = p
                THEN (IF got[p].some = 0 THEN "killed"
                      ELSE IF pc[p] = "rl_kill" THEN "wait" ELSE "remove")
                ELSE IF got[p] = Some(q) /\ Alive(q) THEN "dying"
                ELSE pc[q]]
    /\ UNCHANGED <<got, pidfile, usr1, win, sent, tries, uiVars, animVars>>

\* the probe loop never giving up on a live process
Wait_forever(p) ==
    /\ pc[p] = "wait"
    /\ IF Probe(got[p].some)
       THEN /\ tries' = [tries EXCEPT ![p] = IF @ < ProbeCap THEN @ + 1 ELSE @]
            /\ pc' = pc
       ELSE /\ pc' = [pc EXCEPT ![p] = "remove"]
            /\ tries' = tries
    /\ UNCHANGED <<got, pidfile, usr1, win, sent, uiVars, animVars>>

\* one turn of `for _ in 0..20 { if kill(pid, 0) != 0 { break; } sleep(50 ms) }`
Wait(p) ==
    /\ pc[p] = "wait"
    /\ IF tries[p] < ProbeCap /\ Probe(got[p].some)
       THEN /\ tries' = [tries EXCEPT ![p] = @ + 1]
            /\ pc' = pc
       ELSE /\ pc' = [pc EXCEPT ![p] = "remove"]
            /\ tries' = tries
    /\ UNCHANGED <<got, pidfile, usr1, win, sent, uiVars, animVars>>

\* `let _ = std::fs::remove_file(pidfile);`
Remove(p) ==
    /\ pc[p] = "remove"
    /\ pidfile' = None
    /\ pc' = [pc EXCEPT ![p] = "spawn"]
    /\ UNCHANGED <<got, usr1, win, sent, tries, uiVars, animVars>>

\* `Command::new(&exe)...spawn()`, then the invocation returns: the child is
\* the first process not spawned yet, and runs main() with no argument
Spawn(p) ==
    /\ pc[p] = "spawn"
    /\ \E c \in Procs :
          /\ pc[c] = "unborn"
          /\ \A b \in Procs : pc[b] = "unborn" => c <= b
          /\ pc' = [pc EXCEPT ![p] = "exited", ![c] = "idle"]
    /\ UNCHANGED <<got, pidfile, usr1, win, sent, tries, uiVars, animVars>>

\* SIGTERM ends a process: `remove_file(&pidfile)` after app.run is not
\* reached
Die(p) ==
    /\ pc[p] = "dying"
    /\ pc' = [pc EXCEPT ![p] = "killed"]
    /\ usr1' = [usr1 EXCEPT ![p] = FALSE]
    /\ win' = [win EXCEPT ![p] = FALSE]
    /\ UNCHANGED <<got, pidfile, sent, tries, uiVars, animVars>>

\* what process 1 is when process 2 is started with --reload or --theme:
\* the daemon, a daemon that was killed, or nothing yet; the other
\* processes are not spawned yet
InitRelaunch ==
    /\ pc \in {[p \in Procs |->
                  IF p = 1 THEN was ELSE IF p = 2 THEN "relaunch" ELSE "unborn"] :
               was \in {"daemon", "killed", "unborn"}}
    /\ pidfile = IF pc[1] = "unborn" THEN None ELSE Some(to_string(1))
    /\ win = [p \in Procs |-> pc[p] = "daemon"]
    /\ got = [p \in Procs |-> None]
    /\ usr1 = [p \in Procs |-> FALSE]
    /\ sent = [p \in Procs |-> 0]
    /\ tries = [p \in Procs |-> 0]
    /\ NoUi

\* the steps a started process takes on its own
Step(p) ==
    \/ Relaunch(p, "reload")
    \/ Relaunch(p, "theme")
    \/ SigTerm(p)
    \/ Wait(p)
    \/ Remove(p)
    \/ Spawn(p)
    \/ Invoke(p)
    \/ write_pid(p)
    \/ Activate(p)

RelaunchNext == \E p \in Procs : Step(p) \/ Die(p)

SpecRelaunch == InitRelaunch /\ [][RelaunchNext]_vars

\* a started process goes on running; a process with SIGTERM pending may
\* hang
FairRelaunch == SpecRelaunch /\ \A p \in Procs : WF_vars(Step(p))

(***************************************************************************)
(* Keys, characters and strings.  A string is a sequence of one-character  *)
(* strings.                                                                *)
(***************************************************************************)
NoChar == "none"

\* F(v), with v evaluated once
With(v, F(_)) == CHOOSE r \in {F(x) : x \in {v}} : TRUE

\* keys whose gdk4::Key::to_unicode() is an ASCII graphic character
CharOf ==
    [i |-> "i", a |-> "a", A |-> "A", I |-> "I", slash |-> "/", j |-> "j",
     k |-> "k", g |-> "g", G |-> "G", d |-> "d", u |-> "u", x |-> "x",
     equal |-> "="]
        @@ ("1" :> "1")

GraphicKeys == DOMAIN CharOf

\* keys with no ASCII graphic character: control characters, the blank,
\* navigation keys, a modifier key
PlainKeys ==
    {"Escape", "Return", "KP_Enter", "Tab", "BackSpace", "Delete", "space",
     "Up", "Down", "Home", "End", "Page_Up", "Page_Down", "Shift_L"}

Keys == GraphicKeys \cup PlainKeys

\* a key event: the key and gdk4::ModifierType as a set of names
Event(key, mods) == [key |-> key, mods |-> mods]

\* the keys that type a calculator expression
CalcKeys == {"equal", "1"}

\* the key events of the model: every key but the calculator's alone, the
\* letters of the vim machine with Control, Tab with Shift
KeyEvents ==
    {Event(key, {}) : key \in Keys \ CalcKeys}
        \cup {Event(key, {"ctrl"}) : key \in {"d", "u", "g", "i", "j"}}
        \cup {Event("Tab", {"shift"})}

\* the keyboard of the specification that also moves the environment: the
\* keys that close, select, delete, clear, enter and leave Insert mode, move
\* the selection and edit the text
FewKeyEvents ==
    {Event(key, {}) :
        key \in {"Escape", "Return", "i", "g", "d", "j", "BackSpace",
                 "Delete", "Down", "Up"}}
        \cup {Event("u", {"ctrl"})}

\* the keyboard of the specification of the calculator: the keys that type
\* an expression and a letter, leave and enter Insert mode, select and move
CalcKeyEvents ==
    {Event(key, {}) :
        key \in {"equal", "1", "i", "Escape", "Return", "BackSpace", "Down"}}

\* how lastKey records a key
KeyClass(key) == IF key \in {"g", "d"} THEN key ELSE "other"

\* key.to_unicode().filter(|c| c.is_ascii_graphic())
key_to_char(key) == IF key \in GraphicKeys THEN CharOf[key] ELSE NoChar

\* char::to_lowercase on the characters of the model
LowerChar(c) ==
    CASE c = "A" -> "a"
      [] c = "I" -> "i"
      [] c = "G" -> "g"
      [] c = "C" -> "c"
      [] c = "P" -> "p"
      [] OTHER -> c

\* str::to_lowercase
to_lowercase(s) == [n \in 1..Len(s) |-> LowerChar(s[n])]

\* str::starts_with
starts_with(t, q) == Len(q) <= Len(t) /\ SubSeq(t, 1, Len(q)) = q

\* str::contains
contains(t, q) ==
    \E n \in 0..(Len(t) - Len(q)) : SubSeq(t, n + 1, n + Len(q)) = q

(***************************************************************************)
(* common/vim.rs: the Normal-mode and Insert-mode key handlers.  `last` is *)
(* LAST_KEY on entry; the result carries the emitted action and LAST_KEY   *)
(* on return.                                                              *)
(***************************************************************************)
\* InsertChars with the upper-case letters forgotten
InsertChars_lower == {"i", "a", "/"}

\* `'i' | 'a' | 'A' | 'I' | '/'`
InsertChars == {"i", "a", "A", "I", "/"}

\* the 'j' arm leaving LAST_KEY as it was
j_arm_keeps(last) == [act |-> "Down", last |-> last]

\* `'j' => { LAST_KEY = None; return Some(Down) }`
j_arm(last) == [act |-> "Down", last |-> NoChar]

\* the 'g' arm completing the sequence without clearing LAST_KEY
g_arm_keeps(last) ==
    IF last = "g" THEN [act |-> "Top", last |-> "g"]
    ELSE [act |-> "none", last |-> "g"]

\* the 'g' arm: the second `g` of a pair emits Top, a first one is buffered
g_arm(last) ==
    IF last = "g" THEN [act |-> "Top", last |-> NoChar]
    ELSE [act |-> "none", last |-> "g"]

\* the `'d' if allow_delete` arm
d_arm(last) ==
    IF last = "d" THEN [act |-> "Delete", last |-> NoChar]
    ELSE [act |-> "none", last |-> "d"]

handle_vim_normal_key(key, mods, allow_delete, last) ==
    LET c == key_to_char(key) IN
    IF key = "Escape" THEN [act |-> "Close", last |-> last]
    ELSE IF key = "Return" THEN [act |-> "Select", last |-> last]
    ELSE IF c \in InsertChars THEN [act |-> "EnterInsert", last |-> last]
    ELSE IF c = "j" THEN j_arm(last)
    ELSE IF c = "k" THEN [act |-> "Up", last |-> NoChar]
    ELSE IF c = "g" THEN g_arm(last)
    ELSE IF c = "G" THEN [act |-> "Bottom", last |-> NoChar]
    ELSE IF c = "d" /\ allow_delete THEN d_arm(last)
    ELSE
        \* `_ => LAST_KEY = None` runs only under `if let Some(c) = key_char`
        LET l == IF c # NoChar THEN NoChar ELSE last IN
        IF "ctrl" \in mods /\ c = "d" THEN [act |-> "HalfPageDown", last |-> l]
        ELSE IF "ctrl" \in mods /\ c = "u" THEN [act |-> "HalfPageUp", last |-> l]
        ELSE [act |-> "none", last |-> l]

\* the Insert-mode handler taking Return as well as Escape
handle_vim_insert_key_return(key) ==
    IF key \in {"Escape", "Return"} THEN "ExitInsert" ELSE "none"

handle_vim_insert_key(key) == IF key = "Escape" THEN "ExitInsert" ELSE "none"

(***************************************************************************)
(* common/keys.rs: the keybinding table and its lookup.                    *)
(***************************************************************************)
Chord(key, mods) == [key |-> key, mods |-> mods]

\* the default table with Tab alone bound to Prev as well as to Next
default_keybinds_tab ==
    [Select      |-> <<Chord("Return", {}), Chord("KP_Enter", {})>>,
     Delete      |-> <<Chord("Delete", {})>>,
     ClearSearch |-> <<Chord("u", {"ctrl"})>>,
     Close       |-> <<Chord("Escape", {})>>,
     Next        |-> <<Chord("Down", {}), Chord("Tab", {})>>,
     Prev        |-> <<Chord("Up", {}), Chord("Tab", {})>>,
     PageDown    |-> <<Chord("Page_Down", {})>>,
     PageUp      |-> <<Chord("Page_Up", {})>>,
     First       |-> <<Chord("Home", {})>>,
     Last        |-> <<Chord("End", {})>>]

default_keybinds ==
    [Select      |-> <<Chord("Return", {}), Chord("KP_Enter", {})>>,
     Delete      |-> <<Chord("Delete", {})>>,
     ClearSearch |-> <<Chord("u", {"ctrl"})>>,
     Close       |-> <<Chord("Escape", {})>>,
     Next        |-> <<Chord("Down", {}), Chord("Tab", {})>>,
     Prev        |-> <<Chord("Up", {}), Chord("Tab", {"shift"})>>,
     PageDown    |-> <<Chord("Page_Down", {})>>,
     PageUp      |-> <<Chord("Page_Up", {})>>,
     First       |-> <<Chord("Home", {})>>,
     Last        |-> <<Chord("End", {})>>]

RelevantMods == {"ctrl", "shift", "alt", "super"}

\* match_action accepting a chord whose modifiers are among those pressed
match_action_subset(keybinds, key, mods) ==
    {a \in DOMAIN keybinds :
        \E n \in DOMAIN keybinds[a] :
            /\ keybinds[a][n].key = key
            /\ keybinds[a][n].mods \subseteq mods \cap RelevantMods}

\* match_action: the actions the HashMap iteration can return first; the
\* empty set stands for None
match_action(keybinds, key, mods) ==
    LET pressed == mods \cap RelevantMods IN
    {a \in DOMAIN keybinds :
        \E n \in DOMAIN keybinds[a] : keybinds[a][n] = Chord(key, pressed)}

(***************************************************************************)
(* common/keys.rs and common/config.rs: the [keybinds] section of the      *)
(* configuration file.  An entry is [key, val]: the lower-cased name left  *)
(* of `=` and the text right of it.                                        *)
(***************************************************************************)
\* the character U+00E9, two bytes in UTF-8
EAcute == "e-acute"

\* str::len: the length in bytes
RECURSIVE len(_)
len(s) ==
    IF s = <<>> THEN 0
    ELSE (IF Head(s) = EAcute THEN 2 ELSE 1) + len(Tail(s))

\* str::split(c): the pieces between the occurrences of c, empty ones kept
RECURSIVE split(_, _)
split(s, c) ==
    IF \E n \in 1..Len(s) : s[n] = c
    THEN With(CHOOSE n \in 1..Len(s) :
                  s[n] = c /\ \A m \in 1..(n - 1) : s[m] # c,
              LAMBDA n :
                  <<SubSeq(s, 1, n - 1)>>
                      \o split(SubSeq(s, n + 1, Len(s)), c))
    ELSE <<s>>

\* str::split_whitespace: the non-empty pieces between blanks
split_whitespace(s) == SelectSeq(split(s, " "), LAMBDA t : t # <<>>)

\* parse_action
parse_action(s) ==
    CASE s = "select" -> Some("Select")
      [] s = "delete" -> Some("Delete")
      [] s = "clear_search" -> Some("ClearSearch")
      [] s = "close" -> Some("Close")
      [] s = "next" -> Some("Next")
      [] s = "prev" -> Some("Prev")
      [] s = "page_down" -> Some("PageDown")
      [] s = "page_up" -> Some("PageUp")
      [] s = "first" -> Some("First")
      [] s = "last" -> Some("Last")
      [] OTHER -> None

\* the modifier a part before the last `+` adds: `_ => {}` adds none
ModOf(p) ==
    With(to_lowercase(p), LAMBDA l :
    CASE l \in {<<"c", "t", "r", "l">>, <<"c", "o", "n", "t", "r", "o", "l">>} -> {"ctrl"}
      [] l \in {<<"s", "h", "i", "f", "t">>} -> {"shift"}
      [] l \in {<<"a", "l", "t">>, <<"m", "o", "d", "1">>} -> {"alt"}
      [] l \in {<<"s", "u", "p", "e", "r">>, <<"m", "o", "d", "4">>} -> {"super"}
      [] OTHER -> {})

\* the named keys of parse_single_combo
KeyNames ==
    (<<"r", "e", "t", "u", "r", "n">> :> "Return")
        @@ (<<"e", "n", "t", "e", "r">> :> "Return")
        @@ (<<"e", "s", "c", "a", "p", "e">> :> "Escape")
        @@ (<<"e", "s", "c">> :> "Escape")
        @@ (<<"t", "a", "b">> :> "Tab")
        @@ (<<"d", "e", "l", "e", "t", "e">> :> "Delete")
        @@ (<<"d", "e", "l">> :> "Delete")
        @@ (<<"b", "a", "c", "k", "s", "p", "a", "c", "e">> :> "BackSpace")
        @@ (<<"u", "p">> :> "Up")
        @@ (<<"d", "o", "w", "n">> :> "Down")
        @@ (<<"l", "e", "f", "t">> :> "Left")
        @@ (<<"r", "i", "g", "h", "t">> :> "Right")
        @@ (<<"h", "o", "m", "e">> :> "Home")
        @@ (<<"e", "n", "d">> :> "End")
        @@ (<<"p", "a", "g", "e", "_", "u", "p">> :> "Page_Up")
        @@ (<<"p", "a", "g", "e", "u", "p">> :> "Page_Up")
        @@ (<<"p", "g", "u", "p">> :> "Page_Up")
        @@ (<<"p", "a", "g", "e", "_", "d", "o", "w", "n">> :> "Page_Down")
        @@ (<<"p", "a", "g", "e", "d", "o", "w", "n">> :> "Page_Down")
        @@ (<<"p", "g", "d", "n">> :> "Page_Down")
        @@ (<<"s", "p", "a", "c", "e">> :> "space")

\* the characters that are the name of a key: gdk4::Key::from_name is None
\* for any other one-byte text
NameChars ==
    {"a", "b", "c", "d", "e", "f", "g", "h", "i", "j", "k", "l", "m", "n",
     "o", "p", "q", "r", "s", "t", "u", "v", "w", "x", "y", "z",
     "0", "1", "2", "3", "4", "5", "6", "7", "8", "9"}

from_name(s) == IF s[1] \in NameChars THEN Some(s[1]) ELSE None

\* parse_single_combo
\* the key of parse_single_combo for the lower-cased key_str
key_of(l) ==
    IF l \in DOMAIN KeyNames THEN Some(KeyNames[l])
    ELSE IF len(l) = 1 THEN from_name(l)
    ELSE None

\* the modifiers of parse_single_combo for the parts of the token
mods_of(parts) == UNION {ModOf(parts[n]) : n \in 1..(Len(parts) - 1)}

parse_single_combo(s) ==
    With(split(s, "+"), LAMBDA parts :
        With(key_of(to_lowercase(parts[Len(parts)])), LAMBDA key :
            IF key = None THEN None
            ELSE Some(Chord(key.some, mods_of(parts)))))

\* `.filter_map(parse_single_combo).collect()`
RECURSIVE filter_map(_)
filter_map(toks) ==
    IF toks = <<>> THEN <<>>
    ELSE With(parse_single_combo(Head(toks)), LAMBDA c :
             IF c = None THEN <<>> ELSE <<c.some>>)
            \o filter_map(Tail(toks))

\* parse_key_combos
parse_key_combos(s) == filter_map(split_whitespace(s))

\* ConfigBase::parse_section, "keybinds", merging into the chords of the action
parse_section_merge(kb, key, val) ==
    With(parse_key_combos(val), LAMBDA combos :
        IF parse_action(key) # None /\ combos # <<>>
        THEN [kb EXCEPT ![parse_action(key).some] = @ \o combos]
        ELSE kb)

\* ConfigBase::parse_section, "keybinds"
parse_section(kb, key, val) ==
    With(parse_key_combos(val), LAMBDA combos :
        IF parse_action(key) # None /\ combos # <<>>
        THEN [kb EXCEPT ![parse_action(key).some] = combos]
        ELSE kb)

\* Config::parse: the entries applied in file order to the defaults
RECURSIVE parse_from(_, _)
parse_from(kb, lines) ==
    IF lines = <<>> THEN kb
    ELSE parse_from(parse_section(kb, Head(lines).key, Head(lines).val),
                    Tail(lines))

Config_parse(lines) == parse_from(default_keybinds, lines)

(***************************************************************************)
(* Candidates and the two filters.  A candidate is [name, desc]: the       *)
(* preview of a ClipEntry (desc unused), or the name and description of a  *)
(* DesktopEntry.                                                           *)
(***************************************************************************)
Cand(n, d) == [name |-> n, desc |-> d]

Min(m, n) == IF m <= n THEN m ELSE n

Max(m, n) == IF m >= n THEN m ELSE n

\* populate_list comparing the query as it is typed
clip_filter_typed(ents, q) ==
    SelectSeq(ents, LAMBDA e : q = <<>> \/ contains(to_lowercase(e.name), q))

\* cliphist/ui.rs populate_list: the entries appended to the ListBox
clip_filter(ents, q) ==
    LET lq == to_lowercase(q)
        keep(e) == lq = <<>> \/ contains(to_lowercase(e.name), lq)
    IN SelectSeq(ents, keep)

\* the walk with `consecutive` kept over a non-matching character
RECURSIVE Walk_keeps(_, _, _, _, _, _)
Walk_keeps(q, t, n, qi, consecutive, score) ==
    IF n > Len(t) THEN (IF qi > Len(q) THEN Some(score) ELSE None)
    ELSE IF qi <= Len(q) /\ q[qi] = t[n]
         THEN Walk_keeps(q, t, n + 1, qi + 1, consecutive + 1,
                         score + (consecutive + 1) * 10)
         ELSE Walk_keeps(q, t, n + 1, qi, consecutive, score)

\* the walk giving up at the first character that differs once it has
\* consumed a query character
RECURSIVE Walk_stops(_, _, _, _, _, _)
Walk_stops(q, t, n, qi, consecutive, score) ==
    IF n > Len(t) THEN (IF qi > Len(q) THEN Some(score) ELSE None)
    ELSE IF qi <= Len(q) /\ q[qi] = t[n]
         THEN Walk_stops(q, t, n + 1, qi + 1, consecutive + 1,
                         score + (consecutive + 1) * 10)
         ELSE IF 1 < qi /\ qi <= Len(q) THEN None
         ELSE Walk_stops(q, t, n + 1, qi, 0, score)

\* launcher/search.rs fuzzy_match, the subsequence walk: qi is the index of
\* the next unmatched query character
RECURSIVE Walk(_, _, _, _, _, _)
Walk(q, t, n, qi, consecutive, score) ==
    IF n > Len(t) THEN (IF qi > Len(q) THEN Some(score) ELSE None)
    ELSE IF qi <= Len(q) /\ q[qi] = t[n]
         THEN Walk(q, t, n + 1, qi + 1, consecutive + 1,
                   score + (consecutive + 1) * 10)
         ELSE Walk(q, t, n + 1, qi, 0, score)

\* fuzzy_match past the lower-casing: q and t are the lower-cased texts
match_tiers(q, t) ==
    IF t = q THEN Some(1000)
    ELSE IF starts_with(t, q) THEN Some(500 + (100 - len(q)))
    ELSE IF contains(t, q) THEN Some(200)
    ELSE Walk(q, t, 1, 1, 0, 0)

fuzzy_match(qry, text) ==
    IF qry = <<>> THEN Some(0)
    ELSE With(<<to_lowercase(qry), to_lowercase(text)>>,
              LAMBDA qt : match_tiers(qt[1], qt[2]))

\* Option<i32>::max: None is below every Some
OptMax(x, y) ==
    IF ~IsSome(x) THEN y
    ELSE IF ~IsSome(y) THEN x
    ELSE Some(Max(x.some, y.some))

\* i32 division truncates toward zero; the scores are never negative
Half(o) == IF IsSome(o) THEN Some(o.some \div 2) ELSE None

\* score of one entry in filter_entries, frequency bonus included
entry_score(e, qry, freq) ==
    With(OptMax(fuzzy_match(qry, e.name), Half(fuzzy_match(qry, e.desc))),
         LAMBDA best :
            IF IsSome(best)
            THEN Some(best.some + (IF e.name \in DOMAIN freq
                                   THEN freq[e.name] * 50 ELSE 0))
            ELSE None)

\* the insertion of an unstable sort: before the pairs scoring as much
RECURSIVE InsertDesc_first(_, _)
InsertDesc_first(sorted, m) ==
    IF sorted = <<>> THEN <<m>>
    ELSE IF Head(sorted).score > m.score
         THEN <<Head(sorted)>> \o InsertDesc_first(Tail(sorted), m)
         ELSE <<m>> \o sorted

\* slice::sort_by(|a, b| b.1.cmp(&a.1)) is stable: insert each (entry,
\* score) pair after the pairs scoring at least as much
RECURSIVE InsertDesc(_, _)
InsertDesc(sorted, m) ==
    IF sorted = <<>> THEN <<m>>
    ELSE IF Head(sorted).score >= m.score
         THEN <<Head(sorted)>> \o InsertDesc(Tail(sorted), m)
         ELSE <<m>> \o sorted

RECURSIVE SortDesc(_, _)
SortDesc(done, todo) ==
    IF todo = <<>> THEN done
    ELSE SortDesc(InsertDesc(done, Head(todo)), Tail(todo))

\* `.filter_map(..)`: every entry with its best score
scored(ents, qry, freq) ==
    [n \in 1..Len(ents) |->
        [entry |-> ents[n], best |-> entry_score(ents[n], qry, freq)]]

\* `best.map(|s| (e.clone(), s))`: the pairs of the entries with a score
matched(sc) ==
    With(SelectSeq(sc, LAMBDA m : IsSome(m.best)),
         LAMBDA kept :
            [n \in 1..Len(kept) |->
                [entry |-> kept[n].entry, score |-> kept[n].best.some]])

\* `.map(|(e, _)| e).collect()`
entries_of(sorted) == [n \in 1..Len(sorted) |-> sorted[n].entry]

\* filter_entries without the return for the empty query
filter_entries_scored(ents, qry, freq) ==
    With(SortDesc(<<>>, matched(scored(ents, qry, freq))), entries_of)

filter_entries(ents, qry, freq) ==
    IF qry = <<>> THEN ents
    ELSE With(SortDesc(<<>>, matched(scored(ents, qry, freq))), entries_of)

\* the list a tool's filter yields for `ents` under `q`
Filtered(tl, ents, q, freq) ==
    IF tl = "cliphist" THEN clip_filter(ents, q) ELSE filter_entries(ents, q, freq)

\* the entries kept with the preview compared as it is written
clip_filtered_cased(ents, q) ==
    With(to_lowercase(q), LAMBDA lq :
        IF lq = <<>> THEN ents
        ELSE SelectSeq(ents, LAMBDA e : contains(e.name, lq)))

\* cliphist/entries.rs get_filtered_entry: the entries its `filtered` refers to
clip_filtered(ents, q) ==
    With(to_lowercase(q), LAMBDA lq :
        IF lq = <<>> THEN ents
        ELSE SelectSeq(ents, LAMBDA e : contains(to_lowercase(e.name), lq)))

\* get_filtered_entry of either tool: `filtered.get(idx)`, idx being
\* `row.index() as usize`
get_filtered_entry(tl, ents, q, idx, freq) ==
    With(IF tl = "cliphist" THEN clip_filtered(ents, q)
         ELSE filter_entries(ents, q, freq),
         LAMBDA f : IF idx >= 0 /\ idx < Len(f) THEN Some(f[idx + 1]) ELSE None)

\* `c.is_ascii_digit() || "+-*/.^() ".contains(c)`
allowed(c) ==
    c \in {"0", "1", "2", "3", "4", "5", "6", "7", "8", "9",
           "+", "-", "*", "/", ".", "^", "(", ")", " "}

\* what `bc -l` prints for `scale=4; e`: an expression made of digits only
\* is printed as it is; no other expression passes the keyboard of the model
bc(e) == e

\* launcher/calc.rs calc_eval
calc_eval(expr) ==
    With(to_lowercase(trim_matches(trim_matches(expr, {" "}), {"="})),
         LAMBDA e :
            IF e = <<>> THEN None
            ELSE IF \E n \in 1..Len(e) : ~allowed(e[n]) THEN None
            ELSE Some(bc(e)))

\* the row build_calc_row makes
CalcRow(expr, result) == [expr |-> expr, result |-> result]

\* `calc_enabled && query.starts_with('=') && query.len() > 1`, evaluated
calc_of(q, calc_enabled) ==
    IF calc_enabled /\ starts_with(q, <<"=">>) /\ Len(q) > 1
    THEN calc_eval(Tail(q))
    ELSE None

\* populate_list of either tool: the rows appended to the emptied ListBox
\* (the launcher renders one calculator row, or at most RowCap candidates)
RowCap == 50

\* `.take(50)`
take(f, n) == SubSeq(f, 1, Min(Len(f), n))

\* the launcher filtering what follows the marker when there is no result
populate_list_stripped(tl, ents, q, freq, calc_enabled) ==
    IF tl = "cliphist" THEN Filtered(tl, ents, q, freq)
    ELSE With(calc_of(q, calc_enabled),
              LAMBDA result :
                 IF IsSome(result) THEN <<CalcRow(Tail(q), result.some)>>
                 ELSE With(Filtered(tl, ents,
                                    IF starts_with(q, <<"=">>) THEN Tail(q) ELSE q,
                                    freq),
                           LAMBDA f : take(f, RowCap)))

populate_list(tl, ents, q, freq, calc_enabled) ==
    IF tl = "cliphist" THEN Filtered(tl, ents, q, freq)
    ELSE With(calc_of(q, calc_enabled),
              LAMBDA result :
                 IF IsSome(result) THEN <<CalcRow(Tail(q), result.some)>>
                 ELSE With(Filtered(tl, ents, q, freq),
                           LAMBDA f : take(f, RowCap)))

\* the last row selected in place of the first
FirstRow_last(rs) == Len(rs) - 1

\* `if let Some(first) = listbox.row_at_index(0) { select_row(first) }`
FirstRow(rs) == IF Len(rs) > 0 THEN 0 ELSE -1

(***************************************************************************)
(* One daemon's event loop: activate(), the key-press callback, the        *)
(* `changed` callback of the search Entry and the two signal sources.      *)
(***************************************************************************)
Tools == {"cliphist", "launcher"}

\* the configuration files of the model: the fields the handlers read and
\* the entries of the [keybinds] section
ConfigFiles ==
    [vim_mode : BOOLEAN, close_on_select : {TRUE}, calculator : {TRUE},
     keybinds : {<<>>}]

\* chord specs: a key; a chord in capitals; an unknown modifier; an unknown
\* key before a named key; a character of two bytes; two chords; a
\* character that names no key; no chord at all
ChordSpecs ==
    {<<"a">>,
     <<"C", "t", "r", "l", "+", "A">>,
     <<"h", "y", "p", "e", "r", "+", "a">>,
     <<"f", "o", "o", " ", "e", "n", "t", "e", "r">>,
     <<EAcute>>,
     <<"a", "l", "t", "+", "x", " ", "e", "s", "c">>,
     <<"c", "t", "r", "l", "+", "=">>,
     <<"f", "o", "o">>}

\* entries of the [keybinds] section
BindLines ==
    {[key |-> "select", val |-> v] : v \in ChordSpecs}
        \cup {[key |-> "close", val |-> <<"a">>],
              [key |-> "bogus", val |-> <<"x">>]}

RECURSIVE SeqsUpTo(_, _)
SeqsUpTo(S, n) ==
    IF n = 0 THEN {<<>>}
    ELSE SeqsUpTo(S, n - 1)
            \cup {Append(t, x) : t \in SeqsUpTo(S, n - 1), x \in S}

\* configuration files with a [keybinds] section, vim_mode off
BindFiles ==
    [vim_mode : {FALSE}, close_on_select : {TRUE}, calculator : {TRUE},
     keybinds : SeqsUpTo(BindLines, MaxLines)]

\* Config::load(): the file parsed afresh
Config_load == [cfgFile EXCEPT !.keybinds = Config_parse(@)]

\* what `cliphist list` can print (newest first), and what the desktop-entry
\* scan can find (load_entries sorts by lower-cased name, names are unique)
Sources(tl) ==
    IF tl = "cliphist"
    THEN {<<Cand(<<"g", "a">>, <<>>)>>,
          <<Cand(<<"d">>, <<>>), Cand(<<"g", "a">>, <<>>)>>}
    ELSE {<<Cand(<<"a", "g">>, <<"d">>)>>,
          <<Cand(<<"a", "g">>, <<"d">>), Cand(<<"G", "a">>, <<>>)>>}

\* fetch_entries / load_entries
fetch(src) == src

EmptyMap == [n \in {} |-> 0]

\* the counting that forgets the other names
Bump_only(freq, name) == [n \in {name} |-> 1]

\* `*freq.entry(name).or_insert(0) += 1`
Bump(freq, name) ==
    [n \in DOMAIN freq \cup {name} |->
        IF n = name THEN (IF name \in DOMAIN freq THEN freq[name] ELSE 0) + 1
        ELSE freq[n]]

\* set_vim_mode
set_vim_mode(mode) ==
    /\ VIM_STATE' = mode
    /\ LAST_KEY' = NoChar

\* activate(), first call: the state in which the event loop starts
InitWith(tools, files, srcs) ==
    /\ LifeInit
    /\ Collapsed
    /\ tool \in tools
    /\ cfgFile \in files
    /\ source \in srcs[tool]
    /\ CONFIG = Config_load
    /\ cfg = Config_load
    /\ VIM_STATE = "Normal"
    /\ LAST_KEY = NoChar
    /\ FREQUENCY = EmptyMap
    /\ entries = fetch(source)
    /\ rows = populate_list(tool, entries, <<>>, FREQUENCY, cfg.calculator)
    /\ sel = FirstRow(rows)
    /\ query = <<>>
    /\ visible = TRUE
    /\ focus = IF cfgFile.vim_mode THEN "list" ELSE "search"
    /\ running = TRUE
    /\ act = "none"
    /\ lastKey = "none"

Init == InitWith(Tools, ConfigFiles, [tl \in Tools |-> Sources(tl)])

\* search.connect_changed: the list is rebuilt for the new text `q`
search_changed(q) ==
    /\ rows' = populate_list(tool, entries, q, FREQUENCY, cfg.calculator)
    /\ sel' = FirstRow(rows')

\* Entry::set_text(""): `changed` is emitted only when the text differs
ClearText ==
    /\ query' = <<>>
    /\ IF query # <<>> THEN search_changed(<<>>) ELSE UNCHANGED <<rows, sel>>

\* the text the focused Entry holds after a key press it is left to handle
EntryText(key, mods, q) ==
    IF focus # "search" \/ "ctrl" \in mods THEN q
    ELSE IF key \in GraphicKeys THEN Append(q, CharOf[key])
    ELSE IF key = "space" THEN Append(q, " ")
    ELSE IF key = "BackSpace" /\ q # <<>> THEN SubSeq(q, 1, Len(q) - 1)
    ELSE q

\* glib::Propagation::Proceed: the key reaches the focused widget
Proceed(key, mods) ==
    /\ query' = EntryText(key, mods, query)
    /\ IF query' # query THEN search_changed(query') ELSE UNCHANGED <<rows, sel>>
    /\ UNCHANGED <<visible, entries, source, focus, FREQUENCY>>

Stay == UNCHANGED <<visible, query, entries, source, rows, sel, focus, FREQUENCY>>

\* Close: wk.set_visible(false)
DoClose ==
    /\ visible' = FALSE
    /\ UNCHANGED <<query, entries, source, rows, sel, focus, FREQUENCY>>

\* what a Select path hands out (payload) and whether it hides the window
Nothing == [payload |-> None, hide |-> FALSE]

\* `if let Some(row) = selected_row() { if let Some(e) = get_filtered_entry(..)`:
\* select_entry(e) and close_on_select (cliphist), launch_app(e) and hide
\* (launcher)
select_row ==
    With(get_filtered_entry(tool, entries, query, sel, FREQUENCY),
         LAMBDA e :
            IF sel >= 0 /\ IsSome(e)
            THEN [payload |-> Some([entry |-> e.some]),
                  hide |-> tool = "launcher" \/ CONFIG.close_on_select]
            ELSE Nothing)

\* `if calc && q.starts_with('=') { if let Some(result) = calc_eval(&q[1..])`:
\* the result goes to wl-copy and the window is hidden, else the row path
select_calc ==
    With(IF CONFIG.calculator /\ starts_with(query, <<"=">>)
         THEN calc_eval(Tail(query)) ELSE None,
         LAMBDA result :
            IF IsSome(result)
            THEN [payload |-> Some([copied |-> result.some]), hide |-> TRUE]
            ELSE select_row)

\* VimAction::Select in Normal mode
select_normal == select_row

\* Return in Insert mode
select_insert == IF tool = "launcher" THEN select_calc ELSE select_row

\* Action::Select of the keybinding table
select_plain == IF tool = "launcher" THEN select_calc ELSE select_row

\* Select: the outcome o of the path taken is applied; launch_app counts the
\* launch in FREQUENCY
DoSelect(outcome) ==
    \E o \in {outcome} :
        IF IsSome(o.payload)
        THEN /\ visible' = IF o.hide THEN FALSE ELSE visible
             /\ IF tool = "launcher" /\ "entry" \in DOMAIN o.payload.some
                THEN \E n \in {o.payload.some.entry.name} :
                         /\ Bump(FREQUENCY, n)[n] <= MaxUse
                         /\ FREQUENCY' = Bump(FREQUENCY, n)
                ELSE FREQUENCY' = FREQUENCY
             /\ UNCHANGED <<query, entries, source, rows, sel, focus>>
        ELSE Stay

\* listbox.connect_row_activated, the row path: the clicked row resolved
\* under the `cfg` cloned into the callback at activate()
click_row(i) ==
    With(get_filtered_entry(tool, entries, query, i, FREQUENCY),
         LAMBDA e :
            IF IsSome(e)
            THEN [payload |-> Some([entry |-> e.some]),
                  hide |-> tool = "launcher" \/ cfg.close_on_select]
            ELSE Nothing)

\* listbox.connect_row_activated of the launcher: `cfg_c.calculator` decides
\* on the calculator branch
click_calc(i) ==
    With(IF cfg.calculator /\ starts_with(query, <<"=">>)
         THEN calc_eval(Tail(query)) ELSE None,
         LAMBDA result :
            IF IsSome(result)
            THEN [payload |-> Some([copied |-> result.some]), hide |-> TRUE]
            ELSE click_row(i))

\* what a click on row i hands out
click_outcome(i) == IF tool = "launcher" THEN click_calc(i) ELSE click_row(i)

\* delete_entry: `cliphist delete` drops the entry from the store
delete_entry(src, e) == SelectSeq(src, LAMBDA c : c # e)

\* the Delete that drops the entry from the list it holds and reads
\* nothing again
DoDelete_keeps ==
    IF sel >= 0
    THEN \E e \in {get_filtered_entry(tool, entries, query, sel, FREQUENCY)} :
         /\ source' = IF IsSome(e) THEN delete_entry(source, e.some) ELSE source
         /\ entries' = IF IsSome(e) THEN delete_entry(entries, e.some) ELSE entries
         /\ rows' = populate_list(tool, entries', query, FREQUENCY, FALSE)
         /\ sel' = FirstRow(rows')
         /\ UNCHANGED <<visible, query, focus, FREQUENCY>>
    ELSE Stay

\* Delete (cliphist): delete, fetch again, rebuild under the same query
DoDelete ==
    IF sel >= 0
    THEN \E e \in {get_filtered_entry(tool, entries, query, sel, FREQUENCY)} :
         /\ source' = IF IsSome(e) THEN delete_entry(source, e.some) ELSE source
         /\ entries' = fetch(source')
         /\ rows' = populate_list(tool, entries', query, FREQUENCY, FALSE)
         /\ sel' = FirstRow(rows')
         /\ UNCHANGED <<visible, query, focus, FREQUENCY>>
    ELSE Stay

PageStep == 10

\* the navigation that wraps around at the ends of the list
NavTarget_wraps(a, s, n) ==
    CASE a \in {"Down", "Next"} ->
            IF s >= 0 /\ n > 0 THEN (s + 1) % n ELSE s
      [] a \in {"Up", "Prev"} ->
            IF s >= 0 /\ n > 0 THEN (s + n - 1) % n ELSE s
      [] a \in {"Top", "First"} ->
            IF n > 0 THEN 0 ELSE s
      [] a \in {"Bottom", "Last"} ->
            IF n > 0 THEN n - 1 ELSE s
      [] a \in {"HalfPageDown", "PageDown"} ->
            IF s >= 0 /\ n > 0 THEN (s + PageStep) % n ELSE s
      [] a \in {"HalfPageUp", "PageUp"} ->
            IF s >= 0 THEN Max(s - PageStep, 0) ELSE s

\* the row a navigation action selects, given the selected row s of n rows
NavTarget(a, s, n) ==
    CASE a \in {"Down", "Next"} ->
            IF s >= 0 /\ s + 1 < n THEN s + 1 ELSE s
      [] a \in {"Up", "Prev"} ->
            IF s > 0 THEN s - 1 ELSE s
      [] a \in {"Top", "First"} ->
            IF n > 0 THEN 0 ELSE s
      [] a \in {"Bottom", "Last"} ->
            IF n > 0 THEN n - 1 ELSE s
      [] a \in {"HalfPageDown", "PageDown"} ->
            IF s >= 0 /\ Min(s + PageStep, n - 1) >= 0
            THEN Min(s + PageStep, n - 1) ELSE s
      [] a \in {"HalfPageUp", "PageUp"} ->
            IF s >= 0 THEN Max(s - PageStep, 0) ELSE s

NavActions ==
    {"Down", "Up", "Top", "Bottom", "HalfPageDown", "HalfPageUp",
     "Next", "Prev", "First", "Last", "PageDown", "PageUp"}

DoNav(a) ==
    /\ sel' = NavTarget(a, sel, Len(rows))
    /\ UNCHANGED <<visible, query, entries, source, rows, focus, FREQUENCY>>

\* the effect of an emitted action on the window and the list; o is the
\* outcome of the Select path of the caller
Perform(a, o) ==
    CASE a = "Close" -> DoClose
      [] a = "Select" -> DoSelect(o)
      [] a = "Delete" -> IF tool = "cliphist" THEN DoDelete ELSE Stay
      [] a = "ClearSearch" ->
            /\ ClearText
            /\ UNCHANGED <<visible, entries, source, focus, FREQUENCY>>
      [] a \in NavActions -> DoNav(a)
      [] a = "none" -> Stay

\* the `dd` sequence enabled in the launcher too
allow_delete_always(tl) == TRUE

\* the allow_delete argument each tool passes to handle_vim_normal_key
allow_delete(tl) == tl = "cliphist"

\* key-press callback, vim_mode on, VimMode::Normal: every key is stopped
VimNormalKey(key, mods) ==
    \E r \in {handle_vim_normal_key(key, mods, allow_delete(tool), LAST_KEY)} :
    /\ act' = r.act
    /\ IF r.act = "EnterInsert"
       THEN /\ set_vim_mode("Insert")
            /\ focus' = "search"
            /\ UNCHANGED <<visible, query, entries, source, rows, sel, FREQUENCY>>
       ELSE /\ VIM_STATE' = VIM_STATE
            /\ LAST_KEY' = r.last
            /\ Perform(r.act, select_normal)

\* key-press callback, vim_mode on, VimMode::Insert
VimInsertKey(key, mods) ==
    \E a \in {handle_vim_insert_key(key)} :
    /\ act' = a
    /\ IF a = "ExitInsert"
       THEN /\ set_vim_mode("Normal")
            /\ focus' = "list"
            /\ UNCHANGED <<visible, query, entries, source, rows, sel, FREQUENCY>>
       ELSE /\ UNCHANGED <<VIM_STATE, LAST_KEY>>
            /\ IF key = "Return"
               THEN DoSelect(select_insert)
               ELSE Proceed(key, mods)

\* key-press callback, vim_mode off: the keybinding table decides
PlainKey(key, mods) ==
    \E m \in {match_action(CONFIG.keybinds, key, mods)} :
    /\ UNCHANGED <<VIM_STATE, LAST_KEY>>
    /\ IF m = {}
       THEN act' = "none" /\ Proceed(key, mods)
       ELSE \E a \in m : act' = a /\ Perform(a, select_plain)

\* key_ctrl.connect_key_pressed
KeyPress(key, mods) ==
    /\ running
    /\ visible
    /\ lastKey' = KeyClass(key)
    /\ IF CONFIG.vim_mode
       THEN IF VIM_STATE = "Normal"
            THEN VimNormalKey(key, mods)
            ELSE VimInsertKey(key, mods)
       ELSE PlainKey(key, mods)
    /\ UNCHANGED <<tool, running, cfgFile, CONFIG, cfg, lifeVars, animVars>>

\* listbox.connect_row_activated: row i is clicked; the ListBox selects and
\* focuses the row, then the callback runs
RowClick(i) ==
    /\ running
    /\ visible
    /\ i \in 0..(Len(rows) - 1)
    /\ sel' = i
    /\ focus' = "list"
    /\ act' = "reset"
    /\ \E o \in {click_outcome(i)} :
          IF IsSome(o.payload)
          THEN /\ visible' = IF o.hide THEN FALSE ELSE visible
               /\ IF tool = "launcher" /\ "entry" \in DOMAIN o.payload.some
                  THEN \E n \in {o.payload.some.entry.name} :
                           /\ Bump(FREQUENCY, n)[n] <= MaxUse
                           /\ FREQUENCY' = Bump(FREQUENCY, n)
                  ELSE FREQUENCY' = FREQUENCY
          ELSE UNCHANGED <<visible, FREQUENCY>>
    /\ UNCHANGED <<tool, running, query, entries, source, rows, cfgFile,
                   CONFIG, cfg, VIM_STATE, LAST_KEY, lastKey, lifeVars, animVars>>

\* the actions the key-press callback can emit for a key event
Emitted(key, mods) ==
    IF CONFIG.vim_mode
    THEN IF VIM_STATE = "Normal"
         THEN {handle_vim_normal_key(key, mods, allow_delete(tool), LAST_KEY).act}
         ELSE IF key = "Return" THEN {"Select"} ELSE {}
    ELSE match_action(CONFIG.keybinds, key, mods)

\* select_entry when `Command::new("cliphist")` or `Command::new("wl-copy")`
\* cannot be started: `.spawn().expect(..)` panics in the callback and the
\* process ends before set_visible(false)
select_entry_panics ==
    /\ running' = FALSE
    /\ UNCHANGED <<tool, visible, query, entries, source, rows, focus,
                   cfgFile, CONFIG, cfg, VIM_STATE, FREQUENCY, lifeVars, animVars>>

\* key-press callback of cliphist, a Select with a row resolved, the payload
\* subprocess missing
SelectNoSpawn(key, mods) ==
    /\ running
    /\ visible
    /\ tool = "cliphist"
    /\ "Select" \in Emitted(key, mods)
    /\ IsSome(select_row.payload)
    /\ act' = "Select"
    /\ lastKey' = KeyClass(key)
    /\ LAST_KEY' = IF CONFIG.vim_mode /\ VIM_STATE = "Normal" THEN NoChar
                   ELSE LAST_KEY
    /\ sel' = sel
    /\ select_entry_panics

\* listbox.connect_row_activated of cliphist, the payload subprocess missing
ClickNoSpawn(i) ==
    /\ running
    /\ visible
    /\ tool = "cliphist"
    /\ i \in 0..(Len(rows) - 1)
    /\ IsSome(click_row(i).payload)
    /\ act' = "reset"
    /\ sel' = i
    /\ UNCHANGED <<lastKey, LAST_KEY>>
    /\ select_entry_panics

\* the focus the handlers give after showing the window
ShownFocus(c) == IF c.vim_mode THEN "list" ELSE "search"

\* the borrow of the Rc<RefCell<Vec<..>>> alive in the SIGUSR1 source when it
\* calls search.set_text(""): `let mut ents = wg.entries.borrow_mut()` in
\* cliphist, `let ents = wg.entries.borrow()` in the launcher
HeldAtClear(tl) == IF tl = "cliphist" THEN "exclusive" ELSE "shared"

\* Entry::set_text(""): the `changed` callback runs, inside the call, only
\* when the text differs
ChangedRuns(q) == q # <<>>

\* `entries_f.borrow()` in the `changed` callback: RefCell::borrow panics
\* while the cell is mutably borrowed
BorrowPanics(held) == held = "exclusive"

\* SIGUSR1 source, window hidden, cliphist: `ents` is a RefMut of the list
\* while set_text("") runs; when the text was not empty the `changed`
\* callback borrows the list again and panics
ShowCliphist(c) ==
    /\ entries' = fetch(source)
    /\ rows' = populate_list(tool, entries', <<>>, FREQUENCY, FALSE)
    /\ sel' = FirstRow(rows')
    /\ query' = <<>>
    /\ IF ChangedRuns(query) /\ BorrowPanics(HeldAtClear(tool))
       THEN running' = FALSE /\ UNCHANGED <<visible, focus>>
       ELSE running' = TRUE /\ visible' = TRUE /\ focus' = ShownFocus(c)

\* SIGUSR1 source, window hidden, launcher: the list is shared-borrowed
ShowLauncher(c) ==
    /\ entries' = entries
    /\ rows' = populate_list(tool, entries, <<>>, FREQUENCY, c.calculator)
    /\ sel' = FirstRow(rows')
    /\ query' = <<>>
    /\ running' = TRUE
    /\ visible' = TRUE
    /\ focus' = ShownFocus(c)

\* SIGUSR1 source (setup_signals)
Toggle ==
    /\ running
    /\ CONFIG' = Config_load
    /\ act' = "reset"
    /\ IF visible
       THEN /\ visible' = FALSE
            /\ UNCHANGED <<running, query, entries, rows, sel, focus,
                           VIM_STATE, LAST_KEY>>
       ELSE /\ IF CONFIG'.vim_mode
               THEN set_vim_mode("Normal")
               ELSE UNCHANGED <<VIM_STATE, LAST_KEY>>
            /\ IF tool = "cliphist"
               THEN ShowCliphist(CONFIG')
               ELSE ShowLauncher(CONFIG')
    /\ UNCHANGED <<tool, source, cfgFile, cfg, FREQUENCY, lastKey, lifeVars, animVars>>

\* the SIGUSR2 source resetting the vim machine as the SIGUSR1 source does
Reload_resets ==
    /\ running
    /\ CONFIG' = Config_load
    /\ act' = "reset"
    /\ set_vim_mode("Normal")
    /\ UNCHANGED <<tool, running, visible, query, entries, source, rows, sel,
                   focus, cfgFile, cfg, FREQUENCY, lastKey, lifeVars, animVars>>

\* SIGUSR2 source (setup_signals): configuration and stylesheet reloaded
Reload ==
    /\ running
    /\ CONFIG' = Config_load
    /\ act' = "reset"
    /\ UNCHANGED <<tool, running, visible, query, entries, source, rows, sel,
                   focus, cfgFile, cfg, VIM_STATE, LAST_KEY, FREQUENCY,
                   lastKey, lifeVars, animVars>>

\* the user makes the configuration file another one of `files`
Edit(files) ==
    /\ running
    /\ cfgFile' \in files \ {cfgFile}
    /\ UNCHANGED <<tool, running, visible, query, entries, source, rows, sel,
                   focus, CONFIG, cfg, VIM_STATE, LAST_KEY, FREQUENCY, act,
                   lastKey, lifeVars, animVars>>

\* the user edits the configuration file
ConfigEdit == Edit(ConfigFiles)

\* the clipboard store or the installed applications change
SourceChange ==
    /\ running
    /\ source' \in Sources(tool) \ {source}
    /\ UNCHANGED <<tool, running, visible, query, entries, rows, sel, focus,
                   cfgFile, CONFIG, cfg, VIM_STATE, LAST_KEY, FREQUENCY, act,
                   lastKey, lifeVars, animVars>>

\* the event loop with the whole keyboard, the configuration file and the
\* candidate source left alone
KeysNext ==
    \/ \E ev \in KeyEvents :
          KeyPress(ev.key, ev.mods) /\ Len(query') <= MaxQuery
    \/ Toggle
    \/ Reload

SpecKeys == Init /\ [][KeysNext]_vars

\* the event loop with a changing configuration file and candidate source
Next ==
    \/ \E ev \in FewKeyEvents :
          KeyPress(ev.key, ev.mods) /\ Len(query') <= MaxQuery
    \/ Toggle
    \/ Reload
    \/ ConfigEdit
    \/ SourceChange

Spec == Init /\ [][Next]_vars

\* the event loop with the keys that type and select a calculation, and
\* the clicks on a row
CalcNext ==
    \/ \E ev \in CalcKeyEvents :
          KeyPress(ev.key, ev.mods) /\ Len(query') <= MaxExpr
    \/ \E i \in 0..(Len(rows) - 1) : RowClick(i)
    \/ Toggle
    \/ Reload

SpecCalc == Init /\ [][CalcNext]_vars

\* key events for a configured table: a key alone, with the modifiers of a
\* chord, with more of them, and with a modifier outside the relevant set
BindEvents ==
    {Event("a", {}), Event("a", {"lock"}), Event("a", {"ctrl"}),
     Event("a", {"ctrl", "lock"}), Event("a", {"ctrl", "shift"}),
     Event("x", {"alt"}), Event("Return", {}), Event("Escape", {})}

\* cliphist started with a [keybinds] section in its configuration file
InitBinds == InitWith({"cliphist"}, BindFiles, [tl \in Tools |-> Sources(tl)])

\* the event loop with vim_mode off and a configured table
BindsNext ==
    \/ \E ev \in BindEvents :
          KeyPress(ev.key, ev.mods) /\ Len(query') <= MaxQuery
    \/ Toggle
    \/ Reload

SpecBinds == InitBinds /\ [][BindsNext]_vars

\* installed applications whose names and descriptions match a query in
\* every way: by equality, as a prefix, inside, and as a subsequence
App1 == Cand(<<"a", "b", "c", "d", "e", "f", "x", "g">>, <<>>)

App2 == Cand(<<"A", "b", "d">>, <<"x", "g">>)

FilterSources == {<<App1, App2>>, <<App1>>, <<App2>>}

\* the texts the search Entry is given at once
FilterQueries ==
    {<<"a">>,
     <<"A", "b">>,
     <<"a", "b", "d">>,
     <<"b", "d">>,
     <<"b", "c", "d", "e", "f">>,
     <<"a", "d">>,
     <<"a", "b", "c", "d", "e", "f", "g">>,
     <<"x", "g">>,
     <<"g">>,
     <<"z">>}

\* configuration files with vim_mode off and the default table
PlainFiles ==
    [vim_mode : {FALSE}, close_on_select : {TRUE}, calculator : {TRUE},
     keybinds : {<<>>}]

\* the launcher started over the applications of FilterSources
InitFilter == InitWith({"launcher"}, PlainFiles, [tl \in Tools |-> FilterSources])

\* the text of the search Entry is replaced by q (a paste): the `changed`
\* callback rebuilds the list
EntryChanged(q) ==
    /\ running
    /\ visible
    /\ q # query
    /\ query' = q
    /\ search_changed(q)
    /\ act' = "none"
    /\ UNCHANGED <<tool, running, visible, entries, source, focus, cfgFile,
                   CONFIG, cfg, VIM_STATE, LAST_KEY, FREQUENCY, lastKey,
                   lifeVars, animVars>>

\* the keys that launch and move the selection
FilterKeyEvents == {Event("Return", {}), Event("Down", {})}

\* the event loop of the launcher with whole texts entered
FilterNext ==
    \/ \E q \in FilterQueries : EntryChanged(q)
    \/ \E ev \in FilterKeyEvents : KeyPress(ev.key, ev.mods)
    \/ Toggle

SpecFilter == InitFilter /\ [][FilterNext]_vars

\* clipboard entries: the previews of the store, newest first
ApplePie == Cand(<<"A", "p", "p", "l", "e", " ", "p", "i", "e">>, <<>>)

Banana == Cand(<<"b", "a", "n", "a", "n", "a">>, <<>>)

Pineapple == Cand(<<"p", "i", "n", "e", "a", "p", "p", "l", "e">>, <<>>)

ClipSources == {<<ApplePie, Banana, Pineapple>>, <<Banana, ApplePie>>}

\* the texts given to the search Entry of the clipboard tool
ClipQueries ==
    {<<"p", "p">>, <<"P", "P">>, <<"A">>, <<"a", "n">>, <<"e">>, <<"z">>}

\* the sources and the texts of each tool
SearchSources == [tl \in Tools |->
    IF tl = "cliphist" THEN ClipSources ELSE FilterSources]

SearchQueries(tl) == IF tl = "cliphist" THEN ClipQueries ELSE FilterQueries

\* either tool started with vim_mode off and the default table
InitSearch == InitWith(Tools, PlainFiles, SearchSources)

\* the keys that select, delete, move the selection and clear the text
SearchKeyEvents ==
    {Event("Return", {}), Event("Delete", {}), Event("Down", {}),
     Event("u", {"ctrl"})}

\* the event loop of either tool with whole texts entered
SearchNext ==
    \/ \E q \in SearchQueries(tool) : EntryChanged(q)
    \/ \E ev \in SearchKeyEvents : KeyPress(ev.key, ev.mods)
    \/ Toggle

SpecSearch == InitSearch /\ [][SearchNext]_vars

\* configuration files that differ in close_on_select and calculator
FlagFiles ==
    [vim_mode : {FALSE}, close_on_select : BOOLEAN, calculator : BOOLEAN,
     keybinds : {<<>>}]

\* either tool started on one of the files of FlagFiles
InitFlags == InitWith(Tools, FlagFiles, [tl \in Tools |-> Sources(tl)])

\* the keys that type a calculator expression and select
FlagKeyEvents == {Event("equal", {}), Event("1", {}), Event("Return", {})}

\* the event loop with the configuration file edited between the events
FlagsNext ==
    \/ \E ev \in FlagKeyEvents :
          KeyPress(ev.key, ev.mods) /\ Len(query') <= MaxExpr
    \/ \E i \in 0..(Len(rows) - 1) : RowClick(i)
    \/ Toggle
    \/ Reload
    \/ Edit(FlagFiles)

SpecFlags == InitFlags /\ [][FlagsNext]_vars

\* the event loop of either tool where the programs select_entry starts
\* may be missing
TotalNext ==
    \/ \E ev \in FewKeyEvents :
          KeyPress(ev.key, ev.mods) /\ Len(query') <= MaxQuery
    \/ \E ev \in FewKeyEvents : SelectNoSpawn(ev.key, ev.mods)
    \/ \E i \in 0..(Len(rows) - 1) : RowClick(i)
    \/ \E i \in 0..(Len(rows) - 1) : ClickNoSpawn(i)
    \/ Toggle
    \/ Reload

SpecTotal == Init /\ [][TotalNext]_vars

\* longest name of an application where every short text is a name
MaxField == 3

\* the letters of the short names and queries: two letters, one in capitals
Letters == {"a", "b", "A"}

\* one installed application of any short name
MatchSources == {<<Cand(n, <<>>)>> : n \in SeqsUpTo(Letters, MaxField)}

\* the launcher started on one application of any short name
InitMatch == InitWith({"launcher"}, PlainFiles, [tl \in Tools |-> MatchSources])

\* the search Entry given any short text
MatchNext == \E q \in SeqsUpTo(Letters, MaxExpr) : EntryChanged(q)

SpecMatch == InitMatch /\ [][MatchNext]_vars

\* most candidates of the long list
MaxRows == 12

\* a list of n candidates of different names
LongList(n) == [i \in 1..n |-> Cand([k \in 1..i |-> "a"], <<>>)]

\* no candidate, one, and more than a page of them
NavSources == {LongList(n) : n \in {0, 1, MaxRows}}

\* either tool started on a list of NavSources, vim_mode on or off
InitNav == InitWith(Tools, ConfigFiles, [tl \in Tools |-> NavSources])

\* the keys that move the selection, in the table and in the vim machine,
\* and the key that takes a typed character back
NavKeyEvents ==
    {Event(key, {}) :
        key \in {"Down", "Up", "Tab", "Page_Down", "Page_Up", "Home", "End",
                 "j", "k", "g", "G", "BackSpace"}}
        \cup {Event("Tab", {"shift"}), Event("d", {"ctrl"}), Event("u", {"ctrl"})}

\* the event loop under the navigation keys, as long as no candidate is
\* deleted
NavNext ==
    \E ev \in NavKeyEvents :
        KeyPress(ev.key, ev.mods) /\ Len(query') <= MaxQuery /\ source' = source

SpecNav == InitNav /\ [][NavNext]_vars

(***************************************************************************)
(* The height animation of the launcher: expand, collapse and the timeout  *)
(* sources of animate_height.                                              *)
(***************************************************************************)
\* `let steps = 20`
AnimSteps == 20

\* most timeout sources pending at once
MaxTimers == 3

\* animate_height, the part run at once: an expansion shows the list pane;
\* a timeout source is added
animate_height(expanding) ==
    /\ pane' = IF expanding THEN TRUE ELSE pane
    /\ timers' = Append(timers, [expanding |-> expanding, fired |-> 0])

expand ==
    IF EXPANDED THEN UNCHANGED animVars
    ELSE EXPANDED' = TRUE /\ animate_height(TRUE)

collapse ==
    IF ~EXPANDED THEN UNCHANGED animVars
    ELSE EXPANDED' = FALSE /\ animate_height(FALSE)

\* search.connect_changed of the launcher: the list is rebuilt, then
\* `if !q.is_empty() && !is_expanded() { expand } else if q.is_empty() &&
\* is_expanded() { collapse }`
AnimChanged(q) ==
    /\ running
    /\ visible
    /\ tool = "launcher"
    /\ focus = "search"
    /\ q # query
    /\ query' = q
    /\ search_changed(q)
    /\ act' = "none"
    /\ IF q # <<>> /\ ~EXPANDED THEN expand
       ELSE IF q = <<>> /\ EXPANDED THEN collapse
       ELSE UNCHANGED animVars
    /\ Len(timers') <= MaxTimers
    /\ UNCHANGED <<tool, running, visible, entries, source, focus, cfgFile,
                   CONFIG, cfg, VIM_STATE, LAST_KEY, FREQUENCY, lastKey,
                   lifeVars>>

\* the closure of glib::timeout_add_local runs for source k: sources of one
\* interval run in the order they were added; the 20th run ends the
\* source and, after a collapse, hides the list pane
TimerFires(k) ==
    /\ running
    /\ k \in 1..Len(timers)
    /\ \A i \in 1..(k - 1) : timers[i].fired > timers[k].fired
    /\ IF timers[k].fired + 1 >= AnimSteps
       THEN /\ timers' = SubSeq(timers, 1, k - 1)
                            \o SubSeq(timers, k + 1, Len(timers))
            /\ pane' = IF timers[k].expanding THEN pane ELSE FALSE
       ELSE /\ timers' = [timers EXCEPT ![k].fired = @ + 1]
            /\ pane' = pane
    /\ UNCHANGED <<EXPANDED, lifeVars, uiVars>>

\* SIGUSR1 source of the launcher: a shown window is hidden; a hidden one
\* is reset to collapsed (`set_expanded(false)`, the list rebuilt, the text
\* cleared, `wg.scroll.set_visible(false)`) and shown; the pending timeout
\* sources stay
AnimToggle ==
    /\ running
    /\ tool = "launcher"
    /\ CONFIG' = Config_load
    /\ act' = "reset"
    /\ IF visible
       THEN /\ visible' = FALSE
            /\ UNCHANGED <<running, query, entries, rows, sel, focus,
                           VIM_STATE, LAST_KEY, animVars>>
       ELSE /\ IF CONFIG'.vim_mode
               THEN set_vim_mode("Normal")
               ELSE UNCHANGED <<VIM_STATE, LAST_KEY>>
            /\ ShowLauncher(CONFIG')
            /\ EXPANDED' = FALSE
            /\ pane' = FALSE
            /\ timers' = timers
    /\ UNCHANGED <<tool, source, cfgFile, cfg, FREQUENCY, lastKey, lifeVars>>

\* the texts typed and cleared
AnimQueries == {<<>>, <<"a">>}

\* the launcher started with vim_mode off
InitAnim == InitWith({"launcher"}, PlainFiles, [tl \in Tools |-> Sources(tl)])

\* the event loop of the launcher with its timeout sources
AnimNext ==
    \/ \E q \in AnimQueries : AnimChanged(q)
    \/ \E k \in 1..Len(timers) : TimerFires(k)
    \/ AnimToggle

SpecAnim == InitAnim /\ [][AnimNext]_vars

(***************************************************************************)
(* The claims.                                                             *)
(***************************************************************************)

\* C1: in every reachable state at most one process is running as the
\* daemon, for any interleaving of bare invocations of the same tool by the
\* same user.  (Stated as claimed; two invocations that both read the
\* pidfile before either writes it both become daemons.)
C1_AtMostOneDaemon == Cardinality({p \in Procs : IsDaemon(p)}) <= 1

\* C2: a bare invocation that reads a pidfile naming a live process makes
\* exactly one kill(pid, SIGUSR1) call to that process and exits without
\* writing the pidfile and without becoming the daemon; one that finds no
\* live pid writes its own pid to the pidfile, becomes the daemon (no other
\* invocation ends it before that) and shows its window.  (Stated as
\* claimed; an invocation that has written its pid is terminated by the
\* SIGUSR1 of a later invocation arriving before its handler is installed.)
C2_BareInvocation ==
    [][\A p \in Procs :
        /\ (pc[p] = "idle" /\ pc'[p] # "idle") =>
              IF IsSome(get_pid)
              THEN pc'[p] = "signal" /\ got'[p] = get_pid
              ELSE pc'[p] = "write"
        /\ (pc[p] = "signal" /\ pc'[p] # "signal") =>
              /\ pc'[p] = "exited"
              /\ sent'[p] = sent[p] + 1
              /\ pidfile' = pidfile
              /\ \A q \in Procs :
                    IF got[p] = Some(q)
                    THEN Alive(q) => usr1'[q]
                    ELSE usr1'[q] = usr1[q]
        /\ (pc[p] = "write" /\ pc'[p] # "write") =>
              pidfile' = Some(to_string(p)) /\ pc'[p] = "starting"
        /\ (pc[p] = "starting" /\ pc'[p] # "starting") =>
              pc'[p] = "daemon" /\ win'[p]
        /\ IsDaemon(p)' => sent'[p] = 0
        /\ pc'[p] = "exited" => sent'[p] = 1 /\ ~win'[p]
      ]_vars

\* the state machine is in charge of the next key press, in Normal mode
InNormal == running /\ visible /\ CONFIG.vim_mode /\ VIM_STATE = "Normal"

\* the step is the key-press callback run for the key event ev
Press(ev) == KeyPress(ev.key, ev.mods)

\* the character of a key event
Ch(ev) == key_to_char(ev.key)

\* the key events of `g`, of `d`, of `j`, and of the keys of EnterInsert
GEvents == {ev \in KeyEvents : Ch(ev) = "g"}

DEvents == {ev \in KeyEvents : Ch(ev) = "d"}

JEvents == {ev \in KeyEvents : Ch(ev) = "j"}

InsertEvents == {ev \in KeyEvents : Ch(ev) \in {"i", "a", "A", "I", "/"}}

\* C3: handling one toggle signal flips visibility exactly once; a hidden
\* window becomes shown with the query empty and, when modal input is
\* enabled, with mode Normal and PendingKey empty.  (Stated as claimed; the
\* clipboard tool panics when the query is not empty.)
C3_ToggleFlips ==
    [][Toggle =>
        /\ visible' = ~visible
        /\ visible' =>
              /\ query' = <<>>
              /\ CONFIG'.vim_mode => VIM_STATE' = "Normal" /\ LAST_KEY' = NoChar
      ]_vars

\* C4: in both tools a hidden-to-shown toggle leaves the in-memory candidate
\* list equal to the current contents of the candidate source.  (Stated as
\* claimed; the launcher keeps the list it loaded at start.)
C4_ToggleRefreshes ==
    [][(Toggle /\ ~visible /\ visible') => entries' = fetch(source)]_vars

\* C5: PendingKey is empty after every Normal-mode key press that does not
\* extend a recognised sequence (every key but a first `g` and, with delete
\* enabled, a first `d`), and after every mode change.  (Stated as claimed;
\* Escape, Return and keys without a printable character leave it set.)
C5_PendingCleared ==
    [][/\ InNormal =>
            \A ev \in KeyEvents :
                \/ Ch(ev) = "g" /\ LAST_KEY # "g"
                \/ Ch(ev) = "d" /\ tool = "cliphist" /\ LAST_KEY # "d"
                \/ LAST_KEY' = NoChar
                \/ ~Press(ev)
       /\ VIM_STATE' # VIM_STATE => LAST_KEY' = NoChar
      ]_vars

\* C6: in Normal mode a key other than `g` never emits Top; a `g` pressed
\* with no `g` pending emits nothing and is buffered; the `g` pressed right
\* after such a `g` emits Top and leaves PendingKey empty.
C6_GG ==
    [][InNormal =>
        /\ act' = "Top" => \A ev \in KeyEvents \ GEvents : ~Press(ev)
        /\ \A ev \in GEvents :
              \/ /\ LAST_KEY # "g" => act' = "none" /\ LAST_KEY' = "g"
                 /\ (lastKey = "g" /\ act = "none") =>
                       act' = "Top" /\ LAST_KEY' = NoChar
              \/ ~Press(ev)
      ]_vars

\* C6 witness: the second `g` of a pair has just emitted Top in Normal mode.
C6_Witness == InNormal /\ act = "Top" /\ lastKey = "g" /\ LAST_KEY = NoChar

\* C7: Top is emitted only when the key press immediately before was `g`,
\* and Delete (by the state machine) only when it was `d`.  (Stated as
\* claimed; `g`, Up, `g` emits Top.)
C7_OnlyAfterSameKey ==
    [][InNormal =>
        \A ev \in KeyEvents :
            \/ /\ act' = "Top" => lastKey = "g"
               /\ act' = "Delete" => lastKey = "d"
            \/ ~Press(ev)
      ]_vars

\* C8: in Normal mode with delete enabled, a `d` pressed with no `d` pending
\* emits nothing and is buffered, the `d` pressed right after it emits
\* Delete and leaves PendingKey empty, a `j` pressed right after it emits
\* Down and leaves PendingKey empty, and no other key emits Delete.
C8_DD ==
    [][(InNormal /\ tool = "cliphist") =>
        /\ act' = "Delete" => \A ev \in KeyEvents \ DEvents : ~Press(ev)
        /\ \A ev \in DEvents :
              \/ /\ LAST_KEY # "d" => act' = "none" /\ LAST_KEY' = "d"
                 /\ (lastKey = "d" /\ act = "none") =>
                       act' = "Delete" /\ LAST_KEY' = NoChar
              \/ ~Press(ev)
        /\ \A ev \in JEvents :
              \/ lastKey = "d" => act' = "Down" /\ LAST_KEY' = NoChar
              \/ ~Press(ev)
      ]_vars

\* C8 witness: `d`, `d` has just emitted Delete in the clipboard tool.
C8_Witness ==
    /\ tool = "cliphist" /\ running /\ CONFIG.vim_mode /\ VIM_STATE = "Normal"
    /\ act = "Delete" /\ lastKey = "d" /\ LAST_KEY = NoChar

\* C9: in Normal mode Ctrl+d emits HalfPageDown and Ctrl+u emits HalfPageUp
\* in both tools, and Ctrl+d never arms or completes `dd`.  (Stated as
\* claimed; with delete enabled the `d` arm takes Ctrl+d.)
C9_CtrlHalfPage ==
    [][InNormal =>
        /\ (act' = "HalfPageDown" /\ LAST_KEY' # "d")
              \/ ~Press(Event("d", {"ctrl"}))
        /\ act' = "HalfPageUp" \/ ~Press(Event("u", {"ctrl"}))
      ]_vars

\* C10: the mode changes from Normal to Insert exactly at a Normal-mode press
\* of `i`, `a`, `A`, `I` or `/`: such a press always makes the mode Insert,
\* no other Normal-mode press changes the mode, no other event makes it
\* Insert.
C10_EnterInsert ==
    [][/\ InNormal =>
            /\ \A ev \in InsertEvents : VIM_STATE' = "Insert" \/ ~Press(ev)
            /\ VIM_STATE' # "Normal" =>
                  \A ev \in KeyEvents \ InsertEvents : ~Press(ev)
       /\ (VIM_STATE = "Normal" /\ VIM_STATE' = "Insert") =>
            InNormal /\ \E ev \in InsertEvents : Press(ev)
      ]_vars

\* C10 witness: a Normal-mode press emitting EnterInsert has made the mode
\* Insert.
C10_Witness ==
    /\ running /\ visible /\ CONFIG.vim_mode /\ VIM_STATE = "Insert"
    /\ act = "EnterInsert" /\ focus = "search"

\* the state machine is in charge of the next key press, in Insert mode
InInsert == running /\ visible /\ CONFIG.vim_mode /\ VIM_STATE = "Insert"

\* C11: in Insert mode the state machine returns an action only for Escape
\* (ExitInsert), after which the mode is Normal; every other key returns no
\* action and leaves the mode Insert; Return in Insert mode leaves the mode
\* Insert and performs Select: when the selected row resolves to a candidate
\* the window is hidden (and the launcher counts the launch).
C11_InsertKeys ==
    [][InInsert =>
        \A ev \in KeyEvents :
            \/ IF ev.key = "Escape"
               THEN act' = "ExitInsert" /\ VIM_STATE' = "Normal"
               ELSE /\ act' = "none"
                    /\ VIM_STATE' = "Insert"
                    /\ ev.key = "Return" =>
                          LET e == get_filtered_entry(tool, entries, query,
                                                      sel, FREQUENCY)
                          IN IF sel >= 0 /\ IsSome(e)
                             THEN /\ ~visible'
                                  /\ tool = "launcher" =>
                                        FREQUENCY' = Bump(FREQUENCY, e.some.name)
                             ELSE visible' /\ FREQUENCY' = FREQUENCY
            \/ ~Press(ev)
      ]_vars

\* C11 witness: Return pressed in Insert mode has selected a candidate: the
\* window is hidden, no action was returned, the mode is still Insert.
C11_Witness ==
    /\ running /\ CONFIG.vim_mode /\ VIM_STATE = "Insert"
    /\ ~visible /\ act = "none"

\* the plain `d` key
PlainD == Event("d", {})

\* C12: with the delete sequence disabled (launcher) no key press makes the
\* state machine emit Delete, and a plain `d` in Normal mode emits no action
\* and leaves PendingKey empty.
C12_NoDeleteInLauncher ==
    [][(tool = "launcher" /\ running /\ visible /\ CONFIG.vim_mode) =>
        /\ act' = "Delete" => \A ev \in KeyEvents : ~Press(ev)
        /\ VIM_STATE = "Normal" =>
              \/ act' = "none" /\ LAST_KEY' = NoChar
              \/ ~Press(PlainD)
      ]_vars

\* C12 witness: a plain `d` has just been pressed in the launcher's Normal
\* mode.
C12_Witness ==
    /\ tool = "launcher" /\ InNormal
    /\ lastKey = "d" /\ act = "none" /\ LAST_KEY = NoChar

\* modal input is enabled and the window takes key presses
InModal == running /\ visible /\ CONFIG.vim_mode

\* the action the modal state machine returns for a key event
ModalAction(ev) ==
    IF VIM_STATE = "Normal"
    THEN handle_vim_normal_key(ev.key, ev.mods, allow_delete(tool), LAST_KEY).act
    ELSE handle_vim_insert_key(ev.key)

\* C13: with modal input enabled, a key event the state machine returns no
\* action for and that the keybinding table binds has the effect of its table
\* action.  (Stated as claimed; the modal branches never consult the table.)
C13_DeferredToTable ==
    [][InModal =>
        \A ev \in KeyEvents :
            \/ ModalAction(ev) # "none"
            \/ match_action(CONFIG.keybinds, ev.key, ev.mods) = {}
            \/ \E a \in match_action(CONFIG.keybinds, ev.key, ev.mods) :
                  Perform(a, select_plain)
            \/ ~Press(ev)
      ]_vars

\* C14: Select is consumed uniformly: in every state with the window shown,
\* for the query, the candidate list and the selected row of that state,
\* Return in Normal mode, Return in Insert mode and the Select binding of
\* the plain table hand out the same payload (the calculator result when
\* the launcher's query starts with `=` and evaluates) and make the same
\* visibility change.
C14_SelectUniform ==
    (running /\ visible) =>
        /\ select_normal = select_insert
        /\ select_insert = select_plain

InPlain == running /\ visible /\ ~CONFIG.vim_mode

\* the actions of tbl with a chord of the key of ev and of exactly the
\* modifiers of ev that are among Control, Shift, Alt and Super
Claimants(tbl, ev) ==
    {A \in DOMAIN tbl :
        \E n \in 1..Len(tbl[A]) :
            /\ tbl[A][n].key = ev.key
            /\ tbl[A][n].mods = ev.mods \cap {"ctrl", "shift", "alt", "super"}}

\* no chord of tbl is claimed by two actions
NoOverlap(tbl) ==
    \A A, B \in DOMAIN tbl :
        A # B => \A m \in 1..Len(tbl[A]), n \in 1..Len(tbl[B]) :
                    tbl[A][m] # tbl[B][n]

\* C15: with vim_mode off a key press yields action A only if a chord of A
\* has the key of the event and exactly its modifiers masked to Control,
\* Shift, Alt and Super; it yields no action exactly when no chord matches;
\* CapsLock held with the event changes nothing; and in a table in which
\* no chord is claimed by two actions at most one action can be yielded.
C15_MatchAction ==
    [][InPlain =>
        \A ev \in BindEvents :
            LET cl == Claimants(CONFIG.keybinds, ev)
                bare == Claimants(CONFIG.keybinds,
                                  Event(ev.key, ev.mods \ {"lock"}))
            IN \/ /\ IF cl = {} THEN act' = "none" ELSE act' \in cl
                  /\ IF bare = {} THEN act' = "none" ELSE act' \in bare
                  /\ Cardinality(cl) <= 1 \/ ~NoOverlap(CONFIG.keybinds)
               \/ ~Press(ev)
      ]_vars

\* Select was yielded by a table whose only chord for it is Ctrl+a
C15_Witness ==
    /\ running
    /\ ~CONFIG.vim_mode
    /\ act = "Select"
    /\ CONFIG.keybinds.Select = <<Chord("a", {"ctrl"})>>

\* C16: the table loaded from a [keybinds] section, against the table
\* loaded from the section without its last entry (action A, chord spec
\* S): when S parses to a chord, the chords of A are exactly the parsed
\* ones; when S parses to none, the table is the same; the chords of every
\* other action are the same in both cases.
C16_EntryApplied ==
    LET lines == cfgFile.keybinds IN
    (running /\ lines # <<>>) =>
        LET before == Config_parse(SubSeq(lines, 1, Len(lines) - 1))
            after == CONFIG.keybinds
            A == parse_action(lines[Len(lines)].key)
            S == parse_key_combos(lines[Len(lines)].val)
        IN IsSome(A) =>
              /\ after[A.some] = IF S # <<>> THEN S ELSE before[A.some]
              /\ \A B \in DOMAIN after \ {A.some} : after[B] = before[B]

\* an entry replaced the chords of Select and a later entry with no chord
\* left them
C16_Witness ==
    /\ running
    /\ Len(cfgFile.keybinds) = 2
    /\ cfgFile.keybinds[1] = [key |-> "select", val |-> <<"a">>]
    /\ cfgFile.keybinds[2] = [key |-> "select", val |-> <<"f", "o", "o">>]
    /\ CONFIG.keybinds.Select = <<Chord("a", {})>>
    /\ CONFIG.keybinds.Close = default_keybinds.Close

\* the chord of a token as claimed: the modifiers known among the parts
\* before the last `+`, and the key of a known name or a single character
ClaimedChord(tok) ==
    LET parts == split(tok, "+")
        l == to_lowercase(parts[Len(parts)])
        mods == UNION {ModOf(parts[n]) : n \in 1..(Len(parts) - 1)}
    IN IF l \in DOMAIN KeyNames THEN Some(Chord(KeyNames[l], mods))
       ELSE IF Len(l) = 1 THEN Some(Chord(l[1], mods))
       ELSE None

RECURSIVE ClaimedChords(_)
ClaimedChords(toks) ==
    IF toks = <<>> THEN <<>>
    ELSE (IF IsSome(ClaimedChord(Head(toks)))
          THEN <<ClaimedChord(Head(toks)).some>> ELSE <<>>)
            \o ClaimedChords(Tail(toks))

\* C17: the chords parsed from the chord spec of a [keybinds] entry are, in
\* token order, one chord for every whitespace-separated token whose key
\* part is a known key name or a single character, with the known
\* modifiers of the token; the other tokens are dropped.
C17_ParseChords ==
    \A n \in 1..Len(cfgFile.keybinds) :
        parse_key_combos(cfgFile.keybinds[n].val)
            = ClaimedChords(split_whitespace(cfgFile.keybinds[n].val))

\* the field texts of the candidates
Fields == UNION {{entries[n].name, entries[n].desc} : n \in 1..Len(entries)}

\* the kind of match of a non-empty query in a field: 4 exact, 3 prefix,
\* 2 contains, 1 subsequence only, 0 none
IsSubseq(q, t) == IsSome(Walk(q, t, 1, 1, 0, 0))

Kind(qry, text) ==
    LET q == to_lowercase(qry)
        t == to_lowercase(text)
    IN IF t = q THEN 4
       ELSE IF starts_with(t, q) THEN 3
       ELSE IF contains(t, q) THEN 2
       ELSE IF IsSubseq(q, t) THEN 1
       ELSE 0

InFilter == running /\ visible /\ tool = "launcher" /\ query # <<>>

\* C18: for every field text, a query of a higher kind of match (exact over
\* prefix over contains over subsequence only) never scores below a query
\* of a lower kind.
C18_Monotone ==
    InFilter =>
        \A f \in Fields, q \in FilterQueries :
            (Kind(q, f) > Kind(query, f) /\ Kind(query, f) >= 1) =>
                fuzzy_match(q, f).some >= fuzzy_match(query, f).some

\* the position in t of each character of q when q is consumed greedily,
\* 0 when it is not consumed
RECURSIVE PosOf(_, _, _)
PosOf(q, t, i) ==
    LET from == IF i = 1 THEN 0 ELSE PosOf(q, t, i - 1)
        later == {n \in 1..Len(t) : n > from /\ t[n] = q[i]}
    IN IF (i > 1 /\ from = 0) \/ later = {} THEN 0
       ELSE CHOOSE n \in later : \A m \in later : n <= m

\* the length of the run of adjacent field characters that ends at the
\* i-th character of q
RECURSIVE RunOf(_, _, _)
RunOf(q, t, i) ==
    IF i > 1 /\ PosOf(q, t, i) = PosOf(q, t, i - 1) + 1
    THEN RunOf(q, t, i - 1) + 1
    ELSE 1

RECURSIVE SumRuns(_, _, _)
SumRuns(q, t, i) ==
    IF i = 0 THEN 0 ELSE 10 * RunOf(q, t, i) + SumRuns(q, t, i - 1)

\* the score as the tiers state it
TierScore(qry, text) ==
    LET q == to_lowercase(qry)
        t == to_lowercase(text)
    IN CASE Kind(qry, text) = 4 -> Some(1000)
         [] Kind(qry, text) = 3 -> Some(500 + (100 - Len(q)))
         [] Kind(qry, text) = 2 -> Some(200)
         [] OTHER -> IF \A i \in 1..Len(q) : PosOf(q, t, i) > 0
                     THEN Some(SumRuns(q, t, Len(q)))
                     ELSE None

UsageOf(e) == IF e.name \in DOMAIN FREQUENCY THEN FREQUENCY[e.name] ELSE 0

TotalOf(e) ==
    LET p == fuzzy_match(query, e.name)
        d == fuzzy_match(query, e.desc)
        best == (IF IsSome(p) THEN {p.some} ELSE {})
                   \cup (IF IsSome(d) THEN {d.some \div 2} ELSE {})
    IN IF best = {} THEN -1
       ELSE (CHOOSE b \in best : \A c \in best : b >= c) + 50 * UsageOf(e)

\* the place of a candidate in the input list
PlaceOf(e) == CHOOSE n \in 1..Len(entries) : entries[n] = e

\* C20: for a non-empty query the list shown holds exactly the candidates
\* with a score in the primary or the secondary text, each once, by
\* descending total (the larger of primary score and halved secondary
\* score, plus 50 times the usage count); equal totals keep the order of
\* the input list.
C20_FilterOrder ==
    InFilter =>
        /\ {rows[n] : n \in 1..Len(rows)}
              = {entries[n] : n \in {m \in 1..Len(entries) : TotalOf(entries[m]) >= 0}}
        /\ \A m, n \in 1..Len(rows) :
              m < n =>
                 \/ TotalOf(rows[m]) > TotalOf(rows[n])
                 \/ /\ TotalOf(rows[m]) = TotalOf(rows[n])
                    /\ PlaceOf(rows[m]) < PlaceOf(rows[n])

\* two candidates with the same field score, the later one of the input
\* list used once and shown first
C20_Witness ==
    /\ InFilter
    /\ query = <<"a">>
    /\ entries = <<App1, App2>>
    /\ UsageOf(App1) = 0
    /\ UsageOf(App2) = 1
    /\ rows = <<App2, App1>>

\* the usage counts the candidates of the list can have
UsageMaps == [{entries[n].name : n \in 1..Len(entries)} -> 0..MaxUse]

\* C21: with an empty query the fuzzy filter returns the whole candidate
\* list in its original order under every assignment of usage counts, and
\* the list shown for an empty query is that list.
C21_EmptyQuery ==
    (running /\ tool = "launcher") =>
        /\ \A freq \in UsageMaps : filter_entries(entries, <<>>, freq) = entries
        /\ query = <<>> => rows = take(entries, RowCap)

\* the window shown with the empty query after the second of two
\* applications was launched: the list is in its original order
C21_Witness ==
    /\ running /\ visible /\ tool = "launcher"
    /\ query = <<>>
    /\ entries = <<App1, App2>>
    /\ UsageOf(App1) = 0
    /\ UsageOf(App2) = 1
    /\ rows = <<App1, App2>>

\* the list the filter of a tool places the candidates in
Placed(q) == Filtered(tool, entries, q, FREQUENCY)

\* C22: for both policies and every query, get_filtered_entry(query, i)
\* is the candidate the filter places at position i of the list for the same
\* candidate list and usage counts when i is below the length of that list,
\* and no candidate when i is at or beyond it.
C22_ResolveIndex ==
    running =>
        \A q \in SearchQueries(tool) \cup {<<>>, query} :
            \A i \in 0..(Len(entries) + 1) :
                get_filtered_entry(tool, entries, q, i, FREQUENCY)
                    = IF i < Len(Placed(q)) THEN Some(Placed(q)[i + 1]) ELSE None

\* the second row of the clipboard list under a query in capitals resolves
\* to the third entry of the store
C22_Witness ==
    /\ running /\ visible /\ tool = "cliphist"
    /\ query = <<"P", "P">>
    /\ entries = <<ApplePie, Banana, Pineapple>>
    /\ rows = <<ApplePie, Pineapple>>
    /\ sel = 1
    /\ get_filtered_entry(tool, entries, query, sel, FREQUENCY) = Some(Pineapple)
    /\ get_filtered_entry(tool, entries, query, 2, FREQUENCY) = None

\* the case-folded primary text of e contains the case-folded query q
Has(e, q) == contains(to_lowercase(e.name), to_lowercase(q))

\* the places of the candidate list whose candidates contain q
KeptIdx(q) == {n \in 1..Len(entries) : Has(entries[n], q)}

\* the k-th smallest member of S
Nth(S, k) == CHOOSE n \in S : Cardinality({m \in S : m <= n}) = k

\* the candidates containing q, in the order of the candidate list
SubList(q) ==
    [k \in 1..Cardinality(KeptIdx(q)) |-> entries[Nth(KeptIdx(q), k)]]

\* C23: under the substring policy the result is exactly the sub-list, in
\* fetch order, of the candidates whose case-folded primary text contains
\* the case-folded query, for every query and for the list shown; the empty
\* query returns every candidate in order.
C23_Substring ==
    (running /\ tool = "cliphist") =>
        /\ \A q \in ClipQueries : clip_filter(entries, q) = SubList(q)
        /\ clip_filter(entries, <<>>) = entries
        /\ rows = SubList(query)

\* the scenario of the three previews under the query `pp`
C23_Witness ==
    /\ running /\ visible /\ tool = "cliphist"
    /\ query = <<"p", "p">>
    /\ entries = <<ApplePie, Banana, Pineapple>>
    /\ rows = <<ApplePie, Pineapple>>
    /\ sel = 0

\* the step rebuilds the list shown: the text of the search Entry changes, a
\* toggle shows the window, or the clipboard tool deletes the selected entry
Rebuilt ==
    \/ query' # query
    \/ Toggle /\ ~visible
    \/ tool = "cliphist" /\ sel >= 0 /\ Press(Event("Delete", {}))

\* C24: after every rebuild of the list shown (query change, clear-search,
\* toggle that shows the window, delete) the selected row is row 0 when the
\* rebuilt list is not empty, and no row is selected when it is empty.
C24_FirstSelected ==
    [][(sel' = IF Len(rows') > 0 THEN 0 ELSE -1) \/ ~running' \/ ~Rebuilt]_vars

\* the second row under `pp` was deleted: the list was rebuilt under the
\* same query and its first row is selected
C24_Witness ==
    /\ running /\ visible /\ tool = "cliphist"
    /\ act = "Delete"
    /\ query = <<"p", "p">>
    /\ entries = <<ApplePie, Banana>>
    /\ rows = <<ApplePie>>
    /\ sel = 0

\* the count FREQUENCY holds for the name n: a missing key counts as 0
Count(freq, n) == IF n \in DOMAIN freq THEN freq[n] ELSE 0

\* the names the launcher can count
Names == {entries[k].name : k \in 1..Len(entries)} \cup DOMAIN FREQUENCY

\* the outcome of the Select path a press of Return takes
ReturnOutcome ==
    IF ~CONFIG.vim_mode THEN select_plain
    ELSE IF VIM_STATE = "Normal" THEN select_normal
    ELSE select_insert

\* the outcome o launches the candidate named n
Launches(o, n) ==
    /\ IsSome(o.payload)
    /\ "entry" \in DOMAIN o.payload.some
    /\ o.payload.some.entry.name = n

\* the step launches a candidate named n: by Return or by a click
Launched(n) ==
    \/ Launches(ReturnOutcome, n) /\ Press(Event("Return", {}))
    \/ \E i \in 0..(Len(rows) - 1) : Launches(click_outcome(i), n) /\ RowClick(i)

C26_ReloadFrame ==
    [][Reload =>
        /\ CONFIG' = Config_load
        /\ UNCHANGED <<visible, entries, rows, query, sel, VIM_STATE, LAST_KEY>>
      ]_vars

\* a reload has replaced the configuration loaded at the start while the
\* window is shown with a query, in Insert mode
C26_Witness ==
    /\ running /\ visible
    /\ act = "reset"
    /\ query # <<>>
    /\ VIM_STATE = "Insert"
    /\ CONFIG # cfg
    /\ CONFIG = Config_load

\* what a click on row i hands out when it acts on the configuration last
\* loaded
ClaimedClick(i) ==
    LET result == IF tool = "launcher" /\ CONFIG.calculator
                     /\ starts_with(query, <<"=">>)
                  THEN calc_eval(Tail(query)) ELSE None
        e == get_filtered_entry(tool, entries, query, i, FREQUENCY)
    IN IF IsSome(result)
       THEN [payload |-> Some([copied |-> result.some]), hide |-> TRUE]
       ELSE IF IsSome(e)
       THEN [payload |-> Some([entry |-> e.some]),
             hide |-> tool = "launcher" \/ CONFIG.close_on_select]
       ELSE Nothing

\* C27: the configuration is one snapshot replaced on toggle and on reload,
\* and every handler acts on the values last loaded: a click on a row, a
\* press of Return and a change of the query act on close_on_select and
\* calculator as last loaded, never on values loaded earlier.  (Stated as
\* claimed; the row click and the `changed` callback act on the `cfg` cloned
\* into them at activate().)
C27_OneSnapshot ==
    [][/\ \A i \in 0..(Len(rows) - 1) :
             \/ /\ visible' = ~(IsSome(ClaimedClick(i).payload)
                                    /\ ClaimedClick(i).hide)
                /\ Launches(click_outcome(i), entries[1].name)
                       = Launches(ClaimedClick(i), entries[1].name)
             \/ ~RowClick(i)
       /\ \/ visible' = ~(IsSome(ReturnOutcome.payload) /\ ReturnOutcome.hide)
          \/ ~Press(Event("Return", {}))
       /\ (query' # query /\ running') =>
             rows' = populate_list(tool, entries', query', FREQUENCY',
                                   CONFIG'.calculator)
      ]_vars

\* C30: a refresh holds exclusive access to the candidate list only while
\* it rebuilds the list: when a toggle shows the window and clears a
\* non-empty query, the query-changed handler it runs does not find the
\* list exclusively borrowed, and the daemon lives on.  (Stated as claimed;
\* the clipboard tool clears the text while its RefMut is alive.)
C30_NoReadUnderRefresh ==
    [][(Toggle /\ ~visible) =>
        /\ ~(ChangedRuns(query) /\ HeldAtClear(tool) = "exclusive")
        /\ running'
      ]_vars

\* the pidfile holds the id of a live process
NamesLive ==
    /\ IsSome(pidfile)
    /\ \E q \in Procs : Alive(q) /\ parse_i32(trim(pidfile.some)) = Some(q)

\* C28: a bare invocation that finds the pidfile missing, or naming no live
\* process, or holding text that is not a process id sends no signal and
\* goes on to write the pidfile; after its write the pidfile holds exactly
\* its own process id and it is the daemon.  (Stated as claimed; the text
\* `0` parses, passes the probe and is signalled.)
C28_StaleHeals ==
    [][\A p \in Procs :
        /\ (pc[p] = "idle" /\ pc'[p] # "idle" /\ ~NamesLive) =>
              pc'[p] = "write" /\ sent'[p] = 0
        /\ (pc[p] = "write" /\ pc'[p] # "write") =>
              /\ pidfile' = Some(to_string(p))
              /\ IsDaemon(p)'
              /\ sent'[p] = 0
              /\ usr1' = usr1
      ]_vars

Handled ==
    \/ \E ev \in FewKeyEvents :
          KeyPress(ev.key, ev.mods) \/ SelectNoSpawn(ev.key, ev.mods)
    \/ \E i \in 0..(Len(rows) - 1) : RowClick(i) \/ ClickNoSpawn(i)
    \/ Toggle
    \/ Reload

\* C31: every operation is total.  A key press, a row click, a toggle or a
\* reload leaves the daemon running; Close hides the window and nothing
\* else; a Select whose payload subprocess cannot be started changes
\* nothing.  (Stated as claimed; select_entry panics when the subprocess
\* cannot be started, and so does the toggle of C30.)
C31_Total ==
    [][Handled => running']_vars

\* the launcher is shown with a query that starts with the marker
Marked == running /\ visible /\ tool = "launcher" /\ starts_with(query, <<"=">>)

\* C32: in the launcher with the calculator enabled, under a query that
\* starts with `=`: when calc_eval of what follows the marker has a result
\* the list is one calculator row of that result; when it has none, or the
\* query is the marker alone, the list is the first RowCap entries of the
\* fuzzy filter of the whole query, marker included.
C32_CalcOrFilter ==
    (Marked /\ cfg.calculator) =>
        \E r \in {calc_eval(Tail(query))} :
            rows = IF IsSome(r)
                   THEN <<CalcRow(Tail(query), r.some)>>
                   ELSE take(filter_entries(entries, query, FREQUENCY), RowCap)

\* the query is the marker alone and no candidate is listed, although the
\* empty query would list them all
C32_Witness ==
    /\ Marked
    /\ cfg.calculator
    /\ query = <<"=">>
    /\ entries # <<>>
    /\ rows = <<>>

\* q is a subsequence of t: some characters of t, in their order, spell q
RECURSIVE Embeds(_, _)
Embeds(q, t) ==
    IF q = <<>> THEN TRUE
    ELSE IF t = <<>> THEN FALSE
    ELSE \/ q[1] = t[1] /\ Embeds(Tail(q), Tail(t))
         \/ Embeds(q, Tail(t))

\* C33: for a non-empty query, fuzzy_match gives no score for a field
\* exactly when the lower-cased query is not a subsequence of the
\* lower-cased field.
C33_Subsequence ==
    InFilter =>
        \A f \in Fields :
            IsSome(fuzzy_match(query, f))
                <=> Embeds(to_lowercase(query), to_lowercase(f))

\* a query scattered over the name, in another case, is matched by the walk
C33_Witness ==
    /\ InFilter
    /\ query = <<"A", "a">>
    /\ entries = <<Cand(<<"a", "b", "A">>, <<>>)>>
    /\ fuzzy_match(query, entries[1].name) = Some(20)
    /\ Len(rows) = 1

\* C34: a toggle signal never terminates the daemon.  A process that has
\* SIGUSR1 pending has its handler installed, and no process is ended
\* between writing the pidfile and installing the handler.  (Stated as
\* claimed; the pidfile is written before the application is built and
\* the handler is added at the end of activate.)
C34_HandlerInstalled ==
    [][\A p \in Procs :
          /\ usr1'[p] => pc'[p] = "daemon"
          /\ pc[p] = "starting" => pc'[p] # "killed"]_vars

\* the processes a step leaves SIGUSR1 pending for
Signalled == {q \in Procs : usr1'[q] /\ ~usr1[q]}

\* C35: whatever the pidfile holds, an invocation signals one process of a
\* positive id: a pidfile that parses to 0 or to a negative number counts
\* as no daemon.  get_pid never returns such a number, and a kill reaches
\* at most one process and never the caller.  (Stated as claimed; get_pid
\* filters by kill(pid, 0) alone, which succeeds for 0 and for -1.)
C35_PositivePid ==
    [][\A p \in Procs :
          /\ IsSome(got'[p]) => got'[p].some > 0
          /\ sent'[p] # sent[p] =>
                /\ Cardinality(Signalled) <= 1
                /\ pc'[p] = "exited"]_vars

\* a process spawned by a relaunch that has not ended
Replacement(c) == pc[c] \in {"idle", "signal", "write", "starting", "daemon"}

\* C36: during a relaunch the replacement is spawned only after the
\* previous daemon has stopped running: no process that still has SIGTERM
\* pending is alive together with a replacement, however long it takes to
\* end.  (Stated as claimed; --reload gives up after ProbeCap probes and
\* --theme sleeps once without probing.)
C36_OldThenNew ==
    \A old \in Procs, c \in Procs : ~(pc[old] = "dying" /\ Replacement(c))

\* the row a navigation action selects as claimed, from row i of n rows
ClaimedRow(a, i, n) ==
    CASE a \in {"Down", "Next"} -> IF i = n - 1 THEN i ELSE i + 1
      [] a \in {"Up", "Prev"} -> IF i = 0 THEN i ELSE i - 1
      [] a \in {"Top", "First"} -> 0
      [] a \in {"Bottom", "Last"} -> n - 1
      [] a \in {"HalfPageDown", "PageDown"} ->
            IF i + PageStep < n - 1 THEN i + PageStep ELSE n - 1
      [] a \in {"HalfPageUp", "PageUp"} ->
            IF i - PageStep > 0 THEN i - PageStep ELSE 0

\* C37: a navigation action on a list of n > 0 rows leaves the list as it
\* is and the selected row within 0..n-1, without wrapping around: Next on
\* the last row and Prev on the first change nothing, PageDown selects
\* min(i + PageStep, n - 1), PageUp max(i - PageStep, 0), First row 0 and
\* Last row n - 1; on an empty list it changes nothing.
C37_NavInRange ==
    [][(running /\ visible /\ act' \in NavActions) =>
          /\ rows' = rows
          /\ IF rows = <<>> THEN sel' = sel
             ELSE /\ sel \in 0..(Len(rows) - 1)
                  /\ sel' \in 0..(Len(rows) - 1)
                  /\ sel' = ClaimedRow(act', sel, Len(rows))]_vars

\* PageDown from the first row of a long list landed PageStep rows on,
\* short of the last row
C37_Witness ==
    /\ running
    /\ visible
    /\ Len(rows) = MaxRows
    /\ act \in {"PageDown", "HalfPageDown"}
    /\ sel = PageStep
    /\ sel < Len(rows) - 1

\* C38: in the launcher, whenever the window is visible and no timeout
\* source of the height animation is pending, the list pane is visible
\* exactly when EXPANDED is set.  (Stated as claimed; the last run of a
\* collapse hides the pane also when an expansion has started since.)
C38_PaneFollowsFlag ==
    (running /\ visible /\ tool = "launcher" /\ timers = <<>>) =>
        (pane <=> EXPANDED)

\* every key of the model alone, with Control, with Shift and with CapsLock
ChordEvents ==
    {Event(key, mods) : key \in Keys, mods \in {{}, {"ctrl"}, {"shift"}, {"lock"}}}

\* C39: with a configuration file that has no [keybinds] entry, no chord
\* of the table in use is bound to two actions, match_action has at most
\* one possible result for every key event, and with vim_mode off a key
\* press yields that result.
C39_DefaultUnique ==
    [][(running /\ visible /\ cfgFile.keybinds = <<>>
            /\ CONFIG.keybinds = Config_parse(<<>>)) =>
          /\ NoOverlap(CONFIG.keybinds)
          /\ \A ev \in ChordEvents :
                Cardinality(match_action(CONFIG.keybinds, ev.key, ev.mods)) <= 1
          /\ \A ev \in NavKeyEvents :
                \/ CONFIG.vim_mode
                \/ \E cl \in {Claimants(CONFIG.keybinds, ev)} :
                      IF cl = {} THEN act' = "none" ELSE {act'} = cl
                \/ ~Press(ev)
      ]_vars

\* Shift+Tab, whose key is bound to Next without the modifier, yielded
\* Prev on the first row
C39_Witness ==
    /\ running
    /\ visible
    /\ ~CONFIG.vim_mode
    /\ CONFIG.keybinds = default_keybinds
    /\ match_action(CONFIG.keybinds, "Tab", {"shift"}) = {"Prev"}
    /\ match_action(CONFIG.keybinds, "Tab", {}) = {"Next"}
    /\ act = "Prev"
    /\ sel = 0

\* the source without every candidate equal to e
Without(src, e) == SelectSeq(src, LAMBDA c : c # e)

\* C40: in the clipboard tool a Delete (the table's key or `dd`) with a
\* selected row removes the candidate shown in that row from the source,
\* reads the candidates again from the source and rebuilds the list under
\* the same query, first row selected; the query, the visibility of the
\* window and the vim mode stay.  With no selected row nothing changes and
\* the source is not read.
C40_DeleteFrame ==
    [][(running /\ visible /\ tool = "cliphist" /\ act' = "Delete"
            /\ \E ev \in FewKeyEvents : Press(ev)) =>
          /\ query' = query
          /\ visible' = visible
          /\ VIM_STATE' = VIM_STATE
          /\ IF sel >= 0
             THEN /\ sel < Len(rows)
                  /\ source' = Without(source, rows[sel + 1])
                  /\ entries' = source'
                  /\ rows' = clip_filter(entries', query)
                  /\ sel' = IF rows' = <<>> THEN -1 ELSE 0
             ELSE /\ source' = source
                  /\ entries' = entries
                  /\ rows' = rows
                  /\ sel' = sel
      ]_vars

\* under the query `g` the only row was deleted: the store was read again
\* and holds the other candidate, which the query does not list
C40_Witness ==
    /\ running
    /\ visible
    /\ tool = "cliphist"
    /\ act = "Delete"
    /\ query = <<"g">>
    /\ source = <<Cand(<<"d">>, <<>>)>>
    /\ entries = source
    /\ rows = <<>>
    /\ sel = -1

====
